---------------------------- MODULE Spec2Model ----------------------------
(***************************************************************************)
(* 3MF -> binary STL conversion of the 3D model library (app.py).          *)
(*                                                                         *)
(* The model follows convert_3mf_to_stl statement by statement: the cache  *)
(* lookup, the archive scan with one XML parse per '.model' member, the    *)
(* recursive resolution of build items and components into one flat        *)
(* vertex/triangle buffer, and the byte-exact STL encoding.                *)
(*                                                                         *)
(* Representation of the data:                                             *)
(*  - a member name or a path is a sequence of tokens, so that             *)
(*    startswith('/') and endswith('.model') are computed on it;           *)
(*  - a Python dict is a sequence of [k, v] entries in insertion order;    *)
(*  - a float is a sign and a magnitude [neg, mag] with an integer         *)
(*    magnitude, which keeps IEEE-754's signed zero; every archive of the  *)
(*    catalogue has integer coordinates and triangles whose normals are    *)
(*    exact (see ExactGeometry);                                           *)
(*  - an XML element is a record of its children and attributes; an        *)
(*    optional child is a sequence of length 0 or 1, a missing attribute   *)
(*    is a field the record does not have; a member's bytes are named by   *)
(*    the document of the catalogue they spell (Xml gives its elements).   *)
(***************************************************************************)
EXTENDS Integers, Sequences, FiniteSets, TLC

\* ------------------------------------------------------------------ bounds

\* Longest archive (number of zip members) drawn in Init.
MaxMembers == 2

\* Number of times the file's modification time may change.
MaxTouch == 1

\* Number of files of a project.
MaxFiles == 1

\* Depth of collect() calls at which the interpreter raises RecursionError
\* (sys.getrecursionlimit() is 1000; no acyclic archive of the catalogue
\* nests deeper than 3).
MaxDepth == 5

\* --------------------------------------------------------- program constants

HeaderLen == 80
CountLen == 4
RecordLen == 50

\* ------------------------------------------------------------ small helpers

Last(s) == s[Len(s)]

RECURSIVE Pow2(_)
Pow2(n) == IF n = 0 THEN 1 ELSE 2 * Pow2(n - 1)

RECURSIVE Log2(_)
Log2(n) == IF n < 2 THEN 0 ELSE 1 + Log2(n \div 2)

\* dict: key in d
DictHas(d, k) == \E i \in 1..Len(d) : d[i].k = k

\* dict: d[key]
DictGet(d, k) == d[CHOOSE i \in 1..Len(d) : d[i].k = k].v

\* dict: d[key] = value (an existing key keeps its position)
DictSet(d, k, v) ==
    IF DictHas(d, k)
    THEN [i \in 1..Len(d) |-> IF d[i].k = k THEN [k |-> k, v |-> v] ELSE d[i]]
    ELSE Append(d, [k |-> k, v |-> v])

\* element.get(name, default)
AttrGet(el, name, default) == IF name \in DOMAIN el THEN el[name] ELSE default

\* ------------------------------------------------------------------- floats

PosZero == [neg |-> FALSE, mag |-> 0]

\* float(n) of an integer attribute value
ToFloat(n) == [neg |-> n < 0, mag |-> IF n < 0 THEN -n ELSE n]

FNeg(a) == [neg |-> ~a.neg, mag |-> a.mag]

FAdd(a, b) ==
    IF a.neg = b.neg THEN [neg |-> a.neg, mag |-> a.mag + b.mag]
    ELSE IF a.mag = b.mag THEN PosZero
    ELSE IF a.mag > b.mag THEN [neg |-> a.neg, mag |-> a.mag - b.mag]
    ELSE [neg |-> b.neg, mag |-> b.mag - a.mag]

FSub(a, b) == FAdd(a, FNeg(b))

FMul(a, b) == [neg |-> a.neg # b.neg, mag |-> a.mag * b.mag]

FDiv(a, b) == [neg |-> a.neg # b.neg, mag |-> a.mag \div b.mag]

\* math.sqrt of a sum of squares (never negative)
FSqrt(a) == [neg |-> a.neg, mag |-> CHOOSE k \in 0..a.mag : k * k = a.mag]

FGtZero(a) == ~a.neg /\ a.mag > 0

\* ------------------------------------------------------------------ packing

\* little-endian bytes of an unsigned integer
RECURSIVE LEBytes(_, _)
LEBytes(n, width) ==
    IF width = 0 THEN <<>> ELSE <<n % 256>> \o LEBytes(n \div 256, width - 1)

\* IEEE-754 binary32 exponent and fraction bits (the low 31 bits) of a float
\* with an integer magnitude < 2^24
F32Bits(a) ==
    IF a.mag = 0 THEN 0
    ELSE LET e == Log2(a.mag)
         IN (e + 127) * Pow2(23) + (a.mag - Pow2(e)) * Pow2(23 - e)

\* struct.pack('<f', a): the sign is the top bit of the last byte
PackF32(a) ==
    LET low == LEBytes(F32Bits(a), 4)
    IN <<low[1], low[2], low[3], low[4] + (IF a.neg THEN 128 ELSE 0)>>

\* struct.pack('<I', n)
PackU32(n) == LEBytes(n, 4)

\* struct.pack('<H', n)
PackU16(n) == LEBytes(n, 2)

RECURSIVE PackFloats(_)
PackFloats(fs) ==
    IF fs = <<>> THEN <<>> ELSE PackF32(Head(fs)) \o PackFloats(Tail(fs))

\* PackRecord with the normal written after the vertices
PackRecordNormalLast(n, a, b, c) == PackFloats(a \o b \o c \o n) \o PackU16(0)

\* struct.pack('<12fH', nx,ny,nz, ax,ay,az, bx,by,bz, cx,cy,cz, 0)
PackRecord(n, a, b, c) == PackFloats(n \o a \o b \o c) \o PackU16(0)

\* struct.pack_into(fmt, buf, offset, ...): struct.error when the packed bytes
\* do not fit into the buffer at the offset
PackInto(buf, offset, bytes) ==
    IF offset + Len(bytes) > Len(buf)
    THEN [ok |-> FALSE, exc |-> "struct.error"]
    ELSE [ok |-> TRUE,
          buf |-> [i \in 1..Len(buf) |->
                     IF i > offset /\ i <= offset + Len(bytes)
                     THEN bytes[i - offset] ELSE buf[i]]]

\* ------------------------------------------------------- _parse_model_xml

\* mesh_el.find('m:vertices') children -> flat list of floats
RECURSIVE ParseVerts(_)
ParseVerts(vs) ==
    IF vs = <<>> THEN <<>>
    ELSE <<ToFloat(AttrGet(Head(vs), "x", 0)),
           ToFloat(AttrGet(Head(vs), "y", 0)),
           ToFloat(AttrGet(Head(vs), "z", 0))>> \o ParseVerts(Tail(vs))

\* mesh_el.find('m:triangles') children -> flat list of ints
RECURSIVE ParseTris(_)
ParseTris(ts) ==
    IF ts = <<>> THEN <<>>
    ELSE <<AttrGet(Head(ts), "v1", 0),
           AttrGet(Head(ts), "v2", 0),
           AttrGet(Head(ts), "v3", 0)>> \o ParseTris(Tail(ts))

\* ParseMeshes registering a mesh whatever the length of its lists
RECURSIVE ParseMeshesKeepEmpty(_, _)
ParseMeshesKeepEmpty(objs, meshes) ==
    IF objs = <<>> THEN meshes
    ELSE LET obj == Head(objs)
             rest == Tail(objs)
         IN IF obj.mesh = <<>> THEN ParseMeshesKeepEmpty(rest, meshes)
            ELSE LET mesh_el == obj.mesh[1]
                 IN IF mesh_el.vertices = <<>> \/ mesh_el.triangles = <<>>
                    THEN ParseMeshesKeepEmpty(rest, meshes)
                    ELSE ParseMeshesKeepEmpty(rest,
                             DictSet(meshes, obj.id,
                                     [verts |-> ParseVerts(mesh_el.vertices[1]),
                                      tris |-> ParseTris(mesh_el.triangles[1])]))

\* first loop over the objects: the meshes dict
RECURSIVE ParseMeshes(_, _)
ParseMeshes(objs, meshes) ==
    IF objs = <<>> THEN meshes
    ELSE LET obj == Head(objs)
             rest == Tail(objs)
         IN IF obj.mesh = <<>> THEN ParseMeshes(rest, meshes)
            ELSE LET mesh_el == obj.mesh[1]
                 IN IF mesh_el.vertices = <<>> \/ mesh_el.triangles = <<>>
                    THEN ParseMeshes(rest, meshes)
                    ELSE LET verts == ParseVerts(mesh_el.vertices[1])
                             tris == ParseTris(mesh_el.triangles[1])
                         IN IF verts # <<>> /\ tris # <<>>
                            THEN ParseMeshes(rest,
                                     DictSet(meshes, obj.id,
                                             [verts |-> verts, tris |-> tris]))
                            ELSE ParseMeshes(rest, meshes)

\* comps_el.findall('m:component') -> list of (objectid, path)
RECURSIVE ParseComponents(_)
ParseComponents(cs) ==
    IF cs = <<>> THEN <<>>
    ELSE <<[oid |-> Head(cs).objectid, path |-> AttrGet(Head(cs), "path", <<>>)]>>
         \o ParseComponents(Tail(cs))

\* second loop over the objects: the components_map dict
RECURSIVE ParseComponentsMap(_, _)
ParseComponentsMap(objs, cmap) ==
    IF objs = <<>> THEN cmap
    ELSE LET obj == Head(objs)
             rest == Tail(objs)
         IN IF obj.components = <<>> THEN ParseComponentsMap(rest, cmap)
            ELSE LET comp_list == ParseComponents(obj.components[1])
                 IN IF comp_list # <<>>
                    THEN ParseComponentsMap(rest, DictSet(cmap, obj.id, comp_list))
                    ELSE ParseComponentsMap(rest, cmap)

\* root.findall('.//m:build/m:item') -> list of objectid
RECURSIVE ParseBuildItems(_)
ParseBuildItems(items) ==
    IF items = <<>> THEN <<>>
    ELSE <<Head(items).objectid>> \o ParseBuildItems(Tail(items))

\* _parse_model_xml(xml_bytes): ET.fromstring raises ParseError on malformed XML
parse_model_xml(xml) ==
    IF ~xml.wellformed
    THEN [ok |-> FALSE, exc |-> "ParseError"]
    ELSE [ok |-> TRUE,
          meshes |-> ParseMeshes(xml.objects, <<>>),
          comps |-> ParseComponentsMap(xml.objects, <<>>),
          build |-> ParseBuildItems(xml.build)]

\* -------------------------------------------------- the catalogue of inputs

V(x, y, z) == [x |-> x, y |-> y, z |-> z]

T(a, b, c) == [v1 |-> a, v2 |-> b, v3 |-> c]

NoAttr == <<>>

MeshEl(vs, ts) == [vertices |-> <<vs>>, triangles |-> <<ts>>]

\* <object id=..><mesh>..</mesh></object>
MeshObject(id, vs, ts) ==
    [id |-> id, mesh |-> <<MeshEl(vs, ts)>>, components |-> <<>>]

\* <object id=..><components>..</components></object>
CompObject(id, cs) == [id |-> id, mesh |-> <<>>, components |-> <<cs>>]

\* <component objectid=.. transform=../> (same document)
Comp(oid) == [objectid |-> oid, transform |-> <<1, 0, 0, 0, 1, 0, 0, 0, 1, 5, 5, 5>>]

\* <component objectid=.. p:path=../>
CompAt(oid, path) == [objectid |-> oid, path |-> path]

Item(oid) == [objectid |-> oid]

\* one triangle; the attributes x, y, z, v1 that are 0 are left out
TriVerts == <<NoAttr, [x |-> 1], [y |-> 1]>>
TriTris == <<[v2 |-> 1, v3 |-> 2]>>

\* the unit square split on the diagonal
SquareVerts == <<V(0, 0, 0), V(1, 0, 0), V(1, 1, 0), V(0, 1, 0)>>
SquareTris == <<T(0, 1, 2), T(0, 2, 3)>>

\* a triangle in the plane x = 2
WallVerts == <<V(2, 0, 0), V(2, 2, 0), V(2, 0, 1)>>
WallTris == <<T(0, 1, 2)>>

RootName == <<"3D", "/", "3dmodel", ".model">>
PartName == <<"/", "3D", "/", "Objects", "/", "part", ".model">>
PartPathNoSlash == <<"3D", "/", "Objects", "/", "part", ".model">>
OtherName == <<"3D", "/", "Objects", "/", "other", ".model">>
ThumbName == <<"Metadata", "/", "thumbnail", ".png">>

\* one object, one mesh, listed in the manifest
XSingle ==
    [wellformed |-> TRUE,
     objects |-> <<MeshObject("1", SquareVerts, SquareTris)>>,
     build |-> <<Item("1")>>]

\* an assembly: local, dangling and cross-document components, a dangling
\* build item, an object with a mesh and components, a mesh no one references
XAssembly ==
    [wellformed |-> TRUE,
     objects |-> <<MeshObject("1", TriVerts, TriTris),
                   CompObject("2", <<Comp("1"), Comp("7"),
                                     CompAt("4", PartPathNoSlash)>>),
                   [id |-> "3",
                    mesh |-> <<MeshEl(SquareVerts, SquareTris)>>,
                    components |-> <<<<Comp("1")>>>>],
                   MeshObject("9", WallVerts, WallTris)>>,
     build |-> <<Item("2"), Item("8"), Item("3")>>]

\* no manifest; one mesh element without <triangles>
XNoBuild ==
    [wellformed |-> TRUE,
     objects |-> <<MeshObject("1", TriVerts, TriTris),
                   CompObject("2", <<Comp("1")>>),
                   [id |-> "3",
                    mesh |-> <<[vertices |-> <<SquareVerts>>, triangles |-> <<>>]>>,
                    components |-> <<>>]>>,
     build |-> <<>>]

\* a part document with a manifest of its own
XPart ==
    [wellformed |-> TRUE,
     objects |-> <<MeshObject("1", WallVerts, WallTris),
                   [id |-> "4",
                    mesh |-> <<MeshEl(TriVerts, TriTris)>>,
                    components |-> <<<<Comp("1")>>>>]>>,
     build |-> <<Item("4")>>]

XMalformed == [wellformed |-> FALSE]

\* object 5 references 6 and 6 references 5
XCycle ==
    [wellformed |-> TRUE,
     objects |-> <<[id |-> "5",
                    mesh |-> <<MeshEl(TriVerts, TriTris)>>,
                    components |-> <<<<Comp("6")>>>>],
                   CompObject("6", <<Comp("5")>>)>>,
     build |-> <<Item("5")>>]

\* a triangle index beyond the mesh's vertices
XBadIndex ==
    [wellformed |-> TRUE,
     objects |-> <<MeshObject("1", TriVerts, <<T(0, 1, 5)>>)>>,
     build |-> <<Item("1")>>]

\* a triangle with A = B = C, a triangle with an edge pointing down an axis,
\* a triangle with A = B, a triangle of three points on a line, and a mesh
\* whose <vertices> is empty
XDegenerate ==
    [wellformed |-> TRUE,
     objects |-> <<MeshObject("1",
                      <<V(1, 1, 1), V(0, 1, 0), V(0, 0, 0), V(1, 1, 0),
                        V(0, 2, 0)>>,
                      <<T(0, 0, 0), T(1, 2, 3), T(1, 1, 2), T(1, 2, 4)>>),
                   MeshObject("2", <<>>, TriTris)>>,
     build |-> <<Item("1"), Item("2")>>]

\* a document without objects
XEmpty == [wellformed |-> TRUE, objects |-> <<>>, build |-> <<>>]

\* a manifest whose only item names no object
XDangling == [wellformed |-> TRUE, objects |-> <<>>, build |-> <<Item("8")>>]

\* an object listed twice in the manifest and twice by one object
XTwice ==
    [wellformed |-> TRUE,
     objects |-> <<MeshObject("1", WallVerts, WallTris),
                   CompObject("2", <<Comp("1"), Comp("1")>>)>>,
     build |-> <<Item("1"), Item("2"), Item("1")>>]

\* two objects of one id, and an object whose mesh has no <vertices>
XDuplicate ==
    [wellformed |-> TRUE,
     objects |-> <<MeshObject("1", WallVerts, WallTris),
                   MeshObject("1", TriVerts, TriTris),
                   [id |-> "2",
                    mesh |-> <<[vertices |-> <<>>, triangles |-> <<TriTris>>]>>,
                    components |-> <<>>]>>,
     build |-> <<Item("1"), Item("2")>>]

\* the member contents of the catalogue, by name
Documents ==
    {"XSingle", "XAssembly", "XNoBuild", "XPart", "XMalformed", "XCycle",
     "XBadIndex", "XDegenerate", "XEmpty", "XDangling", "XTwice",
     "XDuplicate"}

\* the element tree of a member's bytes
Xml(data) ==
    CASE data = "XSingle" -> XSingle
      [] data = "XAssembly" -> XAssembly
      [] data = "XNoBuild" -> XNoBuild
      [] data = "XPart" -> XPart
      [] data = "XCycle" -> XCycle
      [] data = "XBadIndex" -> XBadIndex
      [] data = "XDegenerate" -> XDegenerate
      [] data = "XEmpty" -> XEmpty
      [] data = "XDangling" -> XDangling
      [] data = "XTwice" -> XTwice
      [] data = "XDuplicate" -> XDuplicate
      [] OTHER -> XMalformed

\* any document as the root or as the part, a second part, and a thumbnail
Members ==
    {[name |-> n, data |-> x] : n \in {RootName, PartName}, x \in Documents}
    \cup {[name |-> OtherName, data |-> x] : x \in {"XSingle", "XNoBuild"}}
    \cup {[name |-> ThumbName, data |-> "PNG"]}

\* what a file of the models directory may hold
Archives ==
    {[zip |-> FALSE]}
    \cup {[zip |-> TRUE, members |-> s] :
            s \in UNION {[1..k -> Members] : k \in 0..MaxMembers}}

Paths == {"models/cube.3mf"}

\* a file of the models directory and a copy of it under another name
CachePaths == {"models/cube.3mf", "models/copy.3mf"}

\* the archives with at most one member
SmallArchives == {a \in Archives : a.zip => Len(a.members) <= 1}

\* -------------------------------------------------------------------- state

VARIABLES
    fs,           \* path -> [mtime, archive]: the models directory
    touches,      \* how often a modification time has changed
    stl_cache,    \* _stl_cache: cache_key -> STL bytes
    pc,           \* the position of the conversion call
    filepath,     \* convert_3mf_to_stl's argument
    cache_key,    \* (filepath, mtime)
    z,            \* the members of the opened ZipFile
    idx,          \* position of the loop over z.namelist()
    model_data,   \* key -> parsed document
    all_verts,    \* the flattened vertex buffer
    all_tris,     \* the flattened triangle index buffer
    vert_offset,  \* vertices accumulated so far
    build_items,  \* the root document's manifest
    item,         \* position of the loop over build_items
    stack,        \* the frames of the collect() calls in progress
    ret,          \* what the call returned or raised
    response,     \* what the /stl route answered
    waiting,      \* the requests of the threads that are not running
    project       \* scan_3d_models: the project classified last

locals ==
    <<z, idx, model_data, all_verts, all_tris, vert_offset, build_items, item,
      stack>>

vars ==
    <<fs, touches, stl_cache, pc, filepath, cache_key, z, idx, model_data,
      all_verts, all_tris, vert_offset, build_items, item, stack, ret, response,
      waiting, project>>

main_key == <<"/", "3D", "/", "3dmodel", ".model">>

NoMeshMessage == "no mesh data found in the 3MF file"

Pending == [kind |-> "pending"]

Raised(exc) == [kind |-> "raise", exc |-> exc]

\* ------------------------------------------------------------- pure helpers

\* name.endswith('.model')
EndsWithModel(name) == name # <<>> /\ Last(name) = ".model"

\* name.startswith('/')
StartsWithSlash(name) == name # <<>> /\ Head(name) = "/"

\* key = '/' + name if not name.startswith('/') else name
NormKey(name) == IF ~StartsWithSlash(name) THEN <<"/">> \o name ELSE name

\* z.read(name): the zip's name table keeps the last member of a name
ZipRead(members, name) ==
    members[CHOOSE i \in 1..Len(members) :
               /\ members[i].name = name
               /\ \A j \in (i + 1)..Len(members) : members[j].name # name].data

\* the loop of add_mesh: each index shifted by vert_offset
RECURSIVE ShiftTris(_, _)
ShiftTris(tris, offset) ==
    IF tris = <<>> THEN <<>>
    ELSE <<Head(tris) + offset>> \o ShiftTris(Tail(tris), offset)

\* add_mesh advancing the offset by the coordinates, not by the vertices
add_mesh_by_coordinates(acc, verts, tris) ==
    [verts |-> acc.verts \o verts,
     tris |-> acc.tris \o ShiftTris(tris, acc.offset),
     offset |-> acc.offset + Len(verts)]

\* add_mesh without the index shift
add_mesh_unshifted(acc, verts, tris) ==
    [verts |-> acc.verts \o verts,
     tris |-> acc.tris \o tris,
     offset |-> acc.offset + (Len(verts) \div 3)]

\* add_mesh(verts, tris) on the accumulator acc = [verts, tris, offset]
add_mesh(acc, verts, tris) ==
    [verts |-> acc.verts \o verts,
     tris |-> acc.tris \o ShiftTris(tris, acc.offset),
     offset |-> acc.offset + (Len(verts) \div 3)]

\* for oid, (v, t) in meshes.items(): add_mesh(v, t)
RECURSIVE AddAllMeshes(_, _)
AddAllMeshes(acc, meshes) ==
    IF meshes = <<>> THEN acc
    ELSE AddAllMeshes(add_mesh(acc, Head(meshes).v.verts, Head(meshes).v.tris),
                      Tail(meshes))

\* for meshes, _, _ in model_data.values(): ...
RECURSIVE AddAllDocuments(_, _)
AddAllDocuments(acc, docs) ==
    IF docs = <<>> THEN acc
    ELSE AddAllDocuments(AddAllMeshes(acc, Head(docs).v.meshes), Tail(docs))

\* ComponentRef taking an empty path for the root document
ComponentRefRoot(comp_path, model_path) ==
    LET ref == IF comp_path # <<>> THEN comp_path
               ELSE <<"/", "3D", "/", "3dmodel", ".model">>
    IN IF ~StartsWithSlash(ref) THEN <<"/">> \o ref ELSE ref

\* ref = comp_path if comp_path else model_path, with a leading '/'
ComponentRef(comp_path, model_path) ==
    LET ref == IF comp_path # <<>> THEN comp_path ELSE model_path
    IN IF ~StartsWithSlash(ref) THEN <<"/">> \o ref ELSE ref

\* v[i] of a Python list: a negative index counts from the end
PyGet(v, i) ==
    LET j == IF i < 0 THEN i + Len(v) ELSE i
    IN IF j < 0 \/ j >= Len(v)
       THEN [ok |-> FALSE, exc |-> "IndexError"]
       ELSE [ok |-> TRUE, val |-> v[j + 1]]

\* a = t[k] * 3;  ax, ay, az = v[a], v[a+1], v[a+2]
VertexAt(v, a) ==
    LET x == PyGet(v, a)
        y == PyGet(v, a + 1)
        zz == PyGet(v, a + 2)
    IN IF x.ok /\ y.ok /\ zz.ok
       THEN [ok |-> TRUE, val |-> <<x.val, y.val, zz.val>>]
       ELSE [ok |-> FALSE, exc |-> "IndexError"]

\* TriangleNormal without the division by the length
TriangleNormalUnscaled(a, b, c) ==
    LET ux == FSub(b[1], a[1])
        uy == FSub(b[2], a[2])
        uz == FSub(b[3], a[3])
        vx == FSub(c[1], a[1])
        vy == FSub(c[2], a[2])
        vz == FSub(c[3], a[3])
    IN <<FSub(FMul(uy, vz), FMul(uz, vy)),
         FSub(FMul(uz, vx), FMul(ux, vz)),
         FSub(FMul(ux, vy), FMul(uy, vx))>>

\* the normal of the triangle a, b, c: the cross product of b-a and c-a,
\* divided by its length unless the length is 0
TriangleNormal(a, b, c) ==
    LET ux == FSub(b[1], a[1])
        uy == FSub(b[2], a[2])
        uz == FSub(b[3], a[3])
        vx == FSub(c[1], a[1])
        vy == FSub(c[2], a[2])
        vz == FSub(c[3], a[3])
        nx == FSub(FMul(uy, vz), FMul(uz, vy))
        ny == FSub(FMul(uz, vx), FMul(ux, vz))
        nz == FSub(FMul(ux, vy), FMul(uy, vx))
        ln == FSqrt(FAdd(FAdd(FMul(nx, nx), FMul(ny, ny)), FMul(nz, nz)))
    IN IF FGtZero(ln)
       THEN <<FDiv(nx, ln), FDiv(ny, ln), FDiv(nz, ln)>>
       ELSE <<nx, ny, nz>>

\* StlSize with the attribute field counted as four bytes
StlSizeWide(num_tris) == HeaderLen + CountLen + num_tris * (RecordLen + 2)

\* stl_size = 80 + 4 + num_tris * 50
StlSize(num_tris) == HeaderLen + CountLen + num_tris * RecordLen

\* EncodeTriangles dividing by the length of every cross product: Python
\* raises ZeroDivisionError on a float division by 0.0
RECURSIVE EncodeTrianglesDividing(_, _, _, _, _, _)
EncodeTrianglesDividing(buf, v, t, i, num_tris, pos) ==
    IF i >= num_tris THEN [ok |-> TRUE, buf |-> buf]
    ELSE LET i3 == i * 3
             a == VertexAt(v, t[i3 + 1] * 3)
             b == VertexAt(v, t[i3 + 2] * 3)
             c == VertexAt(v, t[i3 + 3] * 3)
         IN IF ~a.ok THEN a
            ELSE IF ~b.ok THEN b
            ELSE IF ~c.ok THEN c
            ELSE IF \A k \in 1..3 :
                       TriangleNormalUnscaled(a.val, b.val, c.val)[k].mag = 0
            THEN [ok |-> FALSE, exc |-> "ZeroDivisionError"]
            ELSE LET packed ==
                         PackInto(buf, pos,
                                  PackRecord(TriangleNormal(a.val, b.val, c.val),
                                             a.val, b.val, c.val))
                 IN IF ~packed.ok THEN packed
                    ELSE EncodeTrianglesDividing(packed.buf, v, t, i + 1,
                                                 num_tris, pos + RecordLen)

\* the loop "for i in range(num_tris)" from triangle i on, writing at pos
RECURSIVE EncodeTriangles(_, _, _, _, _, _)
EncodeTriangles(buf, v, t, i, num_tris, pos) ==
    IF i >= num_tris THEN [ok |-> TRUE, buf |-> buf]
    ELSE LET i3 == i * 3
             a == VertexAt(v, t[i3 + 1] * 3)
             b == VertexAt(v, t[i3 + 2] * 3)
             c == VertexAt(v, t[i3 + 3] * 3)
         IN IF ~a.ok THEN a
            ELSE IF ~b.ok THEN b
            ELSE IF ~c.ok THEN c
            ELSE LET packed ==
                         PackInto(buf, pos,
                                  PackRecord(TriangleNormal(a.val, b.val, c.val),
                                             a.val, b.val, c.val))
                 IN IF ~packed.ok THEN packed
                    ELSE EncodeTriangles(packed.buf, v, t, i + 1, num_tris,
                                         pos + RecordLen)

\* lines 133-158: the STL buffer of the flattened mesh
EncodeStl(v, t, num_tris) ==
    LET stl_data == [i \in 1..StlSize(num_tris) |-> 0]
        counted == PackInto(stl_data, HeaderLen, PackU32(num_tris))
    IN IF ~counted.ok THEN counted
       ELSE EncodeTriangles(counted.buf, v, t, 0, num_tris, HeaderLen + CountLen)

\* ------------------------------------------------------------------ actions

NoResponse == [status |-> 0]

\* no project has been classified
NoProject == [category |-> ""]

\* the buffers of the call before
StaleAcc == [verts |-> all_verts, tris |-> all_tris, offset |-> vert_offset]

EmptyAcc == [verts |-> <<>>, tris |-> <<>>, offset |-> 0]

Acc == [verts |-> all_verts, tris |-> all_tris, offset |-> vert_offset]

SetAcc(acc) ==
    /\ all_verts' = acc.verts
    /\ all_tris' = acc.tris
    /\ vert_offset' = acc.offset

\* the process starts: the cache is empty and no call is in progress
InitProcess ==
    /\ touches = 0
    /\ stl_cache = <<>>
    /\ pc = "idle"
    /\ filepath = ""
    /\ cache_key = <<>>
    /\ z = <<>>
    /\ idx = 0
    /\ model_data = <<>>
    /\ all_verts = <<>>
    /\ all_tris = <<>>
    /\ vert_offset = 0
    /\ build_items = <<>>
    /\ item = 0
    /\ stack = <<>>
    /\ ret = Pending
    /\ response = NoResponse

Init ==
    /\ fs \in [Paths -> {[mtime |-> 0, archive |-> a] : a \in Archives}]
    /\ waiting = <<>>
    /\ project = NoProject
    /\ InitProcess

\* the file is touched: its modification time changes, its content does not.
\* A call reads the modification time once (line 74), so a touch during a
\* call shows only in the next call: it is taken between calls.
Touch(p) ==
    /\ pc = "idle"
    /\ touches < MaxTouch
    /\ touches' = touches + 1
    /\ fs' = [fs EXCEPT ![p].mtime = @ + 1]
    /\ UNCHANGED <<stl_cache, waiting, project, pc, filepath, cache_key, locals, ret,
                   response>>

\* CallHit converting again although the key is cached
CallHitReread(p) ==
    /\ pc = "idle"
    /\ <<p, fs[p].mtime>> \in DOMAIN stl_cache
    /\ filepath' = p
    /\ cache_key' = <<p, fs[p].mtime>>
    /\ SetAcc(EmptyAcc)
    /\ ret' = Pending
    /\ pc' = "open"
    /\ response' = NoResponse
    /\ UNCHANGED <<fs, touches, waiting, project, stl_cache, z, idx, model_data,
                   build_items, item, stack>>

\* CallHit with a cache keyed by the path alone
CallHitAnyTime(p) ==
    /\ pc = "idle"
    /\ \E k \in DOMAIN stl_cache : k[1] = p
    /\ filepath' = p
    /\ cache_key' = <<p, fs[p].mtime>>
    /\ ret' = [kind |-> "bytes",
               data |-> stl_cache[CHOOSE k \in DOMAIN stl_cache : k[1] = p]]
    /\ pc' = "ret77"
    /\ response' = NoResponse
    /\ UNCHANGED <<fs, touches, waiting, project, stl_cache, locals>>

\* lines 74-81, cache hit: return _stl_cache[cache_key]
CallHit(p) ==
    /\ pc = "idle"
    /\ <<p, fs[p].mtime>> \in DOMAIN stl_cache
    /\ filepath' = p
    /\ cache_key' = <<p, fs[p].mtime>>
    /\ ret' = [kind |-> "bytes", data |-> stl_cache[<<p, fs[p].mtime>>]]
    /\ pc' = "ret77"
    /\ response' = NoResponse
    /\ UNCHANGED <<fs, touches, waiting, project, stl_cache, locals>>

\* lines 74-81, cache miss: the buffers start empty
CallMiss(p) ==
    /\ pc = "idle"
    /\ <<p, fs[p].mtime>> \notin DOMAIN stl_cache
    /\ filepath' = p
    /\ cache_key' = <<p, fs[p].mtime>>
    /\ SetAcc(EmptyAcc)
    /\ ret' = Pending
    /\ pc' = "open"
    /\ response' = NoResponse
    /\ UNCHANGED <<fs, touches, waiting, project, stl_cache, z, idx, model_data, build_items, item,
                   stack>>

\* line 83: zipfile.ZipFile(filepath) raises BadZipFile on a file that is no zip
OpenArchive ==
    /\ pc = "open"
    /\ IF fs[filepath].archive.zip
       THEN /\ z' = fs[filepath].archive.members
            /\ model_data' = <<>>
            /\ idx' = 1
            /\ pc' = "read"
            /\ ret' = ret
       ELSE /\ ret' = Raised("BadZipFile")
            /\ pc' = "raised"
            /\ UNCHANGED <<z, model_data, idx>>
    /\ UNCHANGED <<fs, touches, waiting, project, stl_cache, filepath, cache_key, all_verts,
                   all_tris, vert_offset, build_items, item, stack, response>>

\* ReadMember skipping a document that does not parse
ReadMemberLenient ==
    /\ pc = "read"
    /\ idx <= Len(z)
    /\ LET name == z[idx].name
           parsed == parse_model_xml(Xml(ZipRead(z, name)))
       IN IF EndsWithModel(name) /\ parsed.ok
          THEN model_data' =
                   DictSet(model_data, NormKey(name),
                           [meshes |-> parsed.meshes, comps |-> parsed.comps,
                            build |-> parsed.build])
          ELSE model_data' = model_data
    /\ idx' = idx + 1
    /\ UNCHANGED <<fs, touches, waiting, project, stl_cache, pc, filepath, cache_key, z, all_verts,
                   all_tris, vert_offset, build_items, item, stack, ret, response>>

\* lines 85-90: one round of the loop over z.namelist()
ReadMember ==
    /\ pc = "read"
    /\ idx <= Len(z)
    /\ LET name == z[idx].name
           parsed == parse_model_xml(Xml(ZipRead(z, name)))
       IN IF ~EndsWithModel(name)
          THEN /\ idx' = idx + 1
               /\ UNCHANGED <<model_data, pc, ret>>
          ELSE IF parsed.ok
          THEN /\ model_data' =
                      DictSet(model_data, NormKey(name),
                              [meshes |-> parsed.meshes, comps |-> parsed.comps,
                               build |-> parsed.build])
               /\ idx' = idx + 1
               /\ UNCHANGED <<pc, ret>>
          ELSE /\ ret' = Raised(parsed.exc)
               /\ pc' = "raised"
               /\ UNCHANGED <<model_data, idx>>
    /\ UNCHANGED <<fs, touches, waiting, project, stl_cache, filepath, cache_key, z, all_verts,
                   all_tris, vert_offset, build_items, item, stack, response>>

ReadFinished == pc = "read" /\ idx > Len(z)

\* SelectBuildItems without the else: every mesh is added, then the items
SelectBuildItemsAfterAll ==
    /\ ReadFinished
    /\ DictHas(model_data, main_key)
    /\ DictGet(model_data, main_key).build # <<>>
    /\ SetAcc(AddAllDocuments(Acc, model_data))
    /\ build_items' = DictGet(model_data, main_key).build
    /\ item' = 1
    /\ stack' = <<>>
    /\ pc' = "collect"
    /\ UNCHANGED <<fs, touches, waiting, project, stl_cache, filepath, cache_key, z, idx,
                   model_data, ret, response>>

\* lines 115-119: the root document lists build items
SelectBuildItems ==
    /\ ReadFinished
    /\ DictHas(model_data, main_key)
    /\ DictGet(model_data, main_key).build # <<>>
    /\ build_items' = DictGet(model_data, main_key).build
    /\ item' = 1
    /\ stack' = <<>>
    /\ pc' = "collect"
    /\ UNCHANGED <<fs, touches, waiting, project, stl_cache, filepath, cache_key, z, idx,
                   model_data, all_verts, all_tris, vert_offset, ret, response>>

\* FallbackEmptyManifest over the root document's meshes only
FallbackRootOnly ==
    /\ ReadFinished
    /\ DictHas(model_data, main_key)
    /\ DictGet(model_data, main_key).build = <<>>
    /\ SetAcc(AddAllMeshes(Acc, DictGet(model_data, main_key).meshes))
    /\ pc' = "encode"
    /\ UNCHANGED <<fs, touches, waiting, project, stl_cache, filepath, cache_key, z, idx,
                   model_data, build_items, item, stack, ret, response>>

\* lines 120-123: the root document has an empty manifest
FallbackEmptyManifest ==
    /\ ReadFinished
    /\ DictHas(model_data, main_key)
    /\ DictGet(model_data, main_key).build = <<>>
    /\ SetAcc(AddAllDocuments(Acc, model_data))
    /\ pc' = "encode"
    /\ UNCHANGED <<fs, touches, waiting, project, stl_cache, filepath, cache_key, z, idx,
                   model_data, build_items, item, stack, ret, response>>

\* FallbackNoRoot resolving the manifest of each document it finds
FallbackNoRootListed ==
    /\ ReadFinished
    /\ ~DictHas(model_data, main_key)
    /\ SetAcc(AddAllDocuments(Acc,
                 SelectSeq(model_data, LAMBDA e : e.v.build = <<>>)))
    /\ pc' = "encode"
    /\ UNCHANGED <<fs, touches, waiting, project, stl_cache, filepath, cache_key, z, idx,
                   model_data, build_items, item, stack, ret, response>>

\* FallbackNoRoot refusing an archive without a model document
FallbackNoRootStrict ==
    /\ ReadFinished
    /\ ~DictHas(model_data, main_key)
    /\ IF model_data = <<>>
       THEN /\ ret' = Raised("ValueError")
            /\ pc' = "raised"
            /\ UNCHANGED <<all_verts, all_tris, vert_offset>>
       ELSE /\ SetAcc(AddAllDocuments(Acc, model_data))
            /\ pc' = "encode"
            /\ ret' = ret
    /\ UNCHANGED <<fs, touches, waiting, project, stl_cache, filepath, cache_key, z, idx,
                   model_data, build_items, item, stack, response>>

\* lines 124-127: there is no root document
FallbackNoRoot ==
    /\ ReadFinished
    /\ ~DictHas(model_data, main_key)
    /\ SetAcc(AddAllDocuments(Acc, model_data))
    /\ pc' = "encode"
    /\ UNCHANGED <<fs, touches, waiting, project, stl_cache, filepath, cache_key, z, idx,
                   model_data, build_items, item, stack, ret, response>>

Frame(oid, path) == [oid |-> oid, path |-> path, next |-> 0]

\* CallCollect skipping an object that is being resolved already
CallCollectVisited(frames, oid, path) ==
    IF \E k \in 1..Len(frames) : frames[k].oid = oid /\ frames[k].path = path
    THEN /\ stack' = frames
         /\ UNCHANGED <<pc, ret>>
    ELSE IF Len(frames) >= MaxDepth
    THEN /\ ret' = Raised("RecursionError")
         /\ pc' = "raised"
         /\ stack' = frames
    ELSE /\ stack' = Append(frames, Frame(oid, path))
         /\ UNCHANGED <<pc, ret>>

\* a call of collect(): a new frame, or RecursionError at the depth limit
CallCollect(frames, oid, path) ==
    IF Len(frames) >= MaxDepth
    THEN /\ ret' = Raised("RecursionError")
         /\ pc' = "raised"
         /\ stack' = frames
    ELSE /\ stack' = Append(frames, Frame(oid, path))
         /\ UNCHANGED <<pc, ret>>

\* CollectItem passing over an item the manifest has listed before
CollectItemDistinct ==
    /\ pc = "collect"
    /\ stack = <<>>
    /\ item <= Len(build_items)
    /\ IF \E j \in 1..(item - 1) : build_items[j] = build_items[item]
       THEN UNCHANGED <<stack, pc, ret>>
       ELSE CallCollect(stack, build_items[item], main_key)
    /\ item' = item + 1
    /\ UNCHANGED <<fs, touches, waiting, project, stl_cache, filepath, cache_key, z, idx,
                   model_data, all_verts, all_tris, vert_offset, build_items,
                   response>>

\* lines 118-119: collect(item_oid, main_key) for the next build item
CollectItem ==
    /\ pc = "collect"
    /\ stack = <<>>
    /\ item <= Len(build_items)
    /\ CallCollect(stack, build_items[item], main_key)
    /\ item' = item + 1
    /\ UNCHANGED <<fs, touches, waiting, project, stl_cache, filepath, cache_key, z, idx,
                   model_data, all_verts, all_tris, vert_offset, build_items,
                   response>>

\* the loop over the build items is over
CollectDone ==
    /\ pc = "collect"
    /\ stack = <<>>
    /\ item > Len(build_items)
    /\ pc' = "encode"
    /\ UNCHANGED <<fs, touches, waiting, project, stl_cache, filepath, cache_key, locals, ret,
                   response>>

Top == stack[Len(stack)]

Pop == SubSeq(stack, 1, Len(stack) - 1)

\* CollectEnter indexing the dicts without the membership tests
CollectEnterStrict ==
    /\ pc = "collect"
    /\ stack # <<>>
    /\ Top.next = 0
    /\ IF \/ ~DictHas(model_data, Top.path)
          \/ ~DictHas(DictGet(model_data, Top.path).meshes, Top.oid)
       THEN /\ ret' = Raised("KeyError")
            /\ pc' = "raised"
            /\ UNCHANGED <<all_verts, all_tris, vert_offset, stack>>
       ELSE LET doc == DictGet(model_data, Top.path)
            IN /\ SetAcc(add_mesh(Acc, DictGet(doc.meshes, Top.oid).verts,
                                  DictGet(doc.meshes, Top.oid).tris))
               /\ IF DictHas(doc.comps, Top.oid)
                  THEN stack' = [stack EXCEPT ![Len(stack)].next = 1]
                  ELSE stack' = Pop
               /\ UNCHANGED <<pc, ret>>
    /\ UNCHANGED <<fs, touches, waiting, project, stl_cache, filepath, cache_key, z, idx,
                   model_data, build_items, item, response>>

\* lines 102-107: collect() up to its loop over the components
CollectEnter ==
    /\ pc = "collect"
    /\ stack # <<>>
    /\ Top.next = 0
    /\ IF ~DictHas(model_data, Top.path)
       THEN /\ stack' = Pop
            /\ UNCHANGED <<all_verts, all_tris, vert_offset>>
       ELSE LET doc == DictGet(model_data, Top.path)
            IN /\ IF DictHas(doc.meshes, Top.oid)
                  THEN SetAcc(add_mesh(Acc, DictGet(doc.meshes, Top.oid).verts,
                                       DictGet(doc.meshes, Top.oid).tris))
                  ELSE UNCHANGED <<all_verts, all_tris, vert_offset>>
               /\ IF DictHas(doc.comps, Top.oid)
                  THEN stack' = [stack EXCEPT ![Len(stack)].next = 1]
                  ELSE stack' = Pop
    /\ UNCHANGED <<fs, touches, waiting, project, stl_cache, pc, filepath, cache_key, z, idx,
                   model_data, build_items, item, ret, response>>

\* CollectComponent walking the component list from its end
CollectComponentReversed ==
    /\ pc = "collect"
    /\ stack # <<>>
    /\ Top.next > 0
    /\ LET comp_list == DictGet(DictGet(model_data, Top.path).comps, Top.oid)
           comp == comp_list[Len(comp_list) - Top.next + 1]
       IN /\ Top.next <= Len(comp_list)
          /\ CallCollect([stack EXCEPT ![Len(stack)].next = @ + 1],
                         comp.oid, ComponentRef(comp.path, Top.path))
    /\ UNCHANGED <<fs, touches, waiting, project, stl_cache, filepath, cache_key, z, idx,
                   model_data, all_verts, all_tris, vert_offset, build_items,
                   item, response>>

\* lines 108-112: collect(comp_oid, ref) for the next component
CollectComponent ==
    /\ pc = "collect"
    /\ stack # <<>>
    /\ Top.next > 0
    /\ LET comp_list == DictGet(DictGet(model_data, Top.path).comps, Top.oid)
       IN /\ Top.next <= Len(comp_list)
          /\ CallCollect([stack EXCEPT ![Len(stack)].next = @ + 1],
                         comp_list[Top.next].oid,
                         ComponentRef(comp_list[Top.next].path, Top.path))
    /\ UNCHANGED <<fs, touches, waiting, project, stl_cache, filepath, cache_key, z, idx,
                   model_data, all_verts, all_tris, vert_offset, build_items,
                   item, response>>

\* collect() returns after its last component
CollectReturn ==
    /\ pc = "collect"
    /\ stack # <<>>
    /\ Top.next > 0
    /\ Top.next > Len(DictGet(DictGet(model_data, Top.path).comps, Top.oid))
    /\ stack' = Pop
    /\ UNCHANGED <<fs, touches, waiting, project, stl_cache, pc, filepath, cache_key, z, idx,
                   model_data, all_verts, all_tris, vert_offset, build_items,
                   item, ret, response>>

\* ReturnNone storing an STL of zero triangles for the key
ReturnNoneStored ==
    /\ pc = "encode"
    /\ Len(all_tris) \div 3 = 0
    /\ stl_cache' =
          [k \in DOMAIN stl_cache \cup {cache_key} |->
             IF k = cache_key THEN [i \in 1..StlSize(0) |-> 0]
             ELSE stl_cache[k]]
    /\ ret' = [kind |-> "none"]
    /\ pc' = "ret131"
    /\ UNCHANGED <<fs, touches, waiting, project, filepath, cache_key, locals, response>>

\* ReturnNone answering with an STL of zero triangles
ReturnEmptyStl ==
    /\ pc = "encode"
    /\ Len(all_tris) \div 3 = 0
    /\ ret' = [kind |-> "bytes", data |-> [i \in 1..StlSize(0) |-> 0]]
    /\ pc' = "ret161"
    /\ UNCHANGED <<fs, touches, waiting, project, stl_cache, filepath, cache_key, locals, response>>

\* lines 129-131: no triangle, return None
ReturnNone ==
    /\ pc = "encode"
    /\ Len(all_tris) \div 3 = 0
    /\ ret' = [kind |-> "none"]
    /\ pc' = "ret131"
    /\ UNCHANGED <<fs, touches, waiting, project, stl_cache, filepath, cache_key, locals, response>>

\* Encode dropping the entries stored for the path under other times
EncodeEvicting ==
    /\ pc = "encode"
    /\ Len(all_tris) \div 3 # 0
    /\ LET encoded == EncodeStl(all_verts, all_tris, Len(all_tris) \div 3)
       IN IF encoded.ok
          THEN /\ stl_cache' =
                      [k \in {j \in DOMAIN stl_cache : j[1] # filepath}
                               \cup {cache_key} |->
                         IF k = cache_key THEN encoded.buf ELSE stl_cache[k]]
               /\ ret' = [kind |-> "bytes", data |-> encoded.buf]
               /\ pc' = "ret161"
          ELSE /\ ret' = Raised(encoded.exc)
               /\ pc' = "raised"
               /\ UNCHANGED stl_cache
    /\ UNCHANGED <<fs, touches, waiting, project, filepath, cache_key, locals, response>>

\* Encode refusing to store under a key that is already there
EncodeInsertOnce ==
    /\ pc = "encode"
    /\ Len(all_tris) \div 3 # 0
    /\ LET encoded == EncodeStl(all_verts, all_tris, Len(all_tris) \div 3)
       IN IF encoded.ok /\ cache_key \notin DOMAIN stl_cache
          THEN /\ stl_cache' =
                      [k \in DOMAIN stl_cache \cup {cache_key} |->
                         IF k = cache_key THEN encoded.buf ELSE stl_cache[k]]
               /\ ret' = [kind |-> "bytes", data |-> encoded.buf]
               /\ pc' = "ret161"
          ELSE /\ ret' = Raised(IF encoded.ok THEN "KeyError" ELSE encoded.exc)
               /\ pc' = "raised"
               /\ UNCHANGED stl_cache
    /\ UNCHANGED <<fs, touches, waiting, project, filepath, cache_key, locals, response>>

\* lines 133-161: encode, store in the cache, return the bytes
Encode ==
    /\ pc = "encode"
    /\ Len(all_tris) \div 3 # 0
    /\ LET encoded == EncodeStl(all_verts, all_tris, Len(all_tris) \div 3)
       IN IF encoded.ok
          THEN /\ stl_cache' =
                      [k \in DOMAIN stl_cache \cup {cache_key} |->
                         IF k = cache_key THEN encoded.buf ELSE stl_cache[k]]
               /\ ret' = [kind |-> "bytes", data |-> encoded.buf]
               /\ pc' = "ret161"
          ELSE /\ ret' = Raised(encoded.exc)
               /\ pc' = "raised"
               /\ UNCHANGED stl_cache
    /\ UNCHANGED <<fs, touches, waiting, project, filepath, cache_key, locals, response>>

Returned == pc \in {"ret77", "ret131", "ret161", "raised"}

\* stl_convert, lines 186-201: the answer of the /stl route
RouteResponse(r) ==
    IF r.kind = "bytes" THEN [status |-> 200, body |-> r.data]
    ELSE IF r.kind = "none"
    THEN [status |-> 500, body |-> [ok |-> FALSE, error |-> NoMeshMessage]]
    ELSE [status |-> 500, body |-> [ok |-> FALSE, error |-> r.exc]]

\* the call is over: its locals are gone
Respond ==
    /\ Returned
    /\ response' = RouteResponse(ret)
    /\ pc' = "idle"
    /\ ret' = Pending
    /\ z' = <<>>
    /\ idx' = 0
    /\ model_data' = <<>>
    /\ SetAcc(EmptyAcc)
    /\ build_items' = <<>>
    /\ item' = 0
    /\ stack' = <<>>
    /\ UNCHANGED <<fs, touches, waiting, project, stl_cache, filepath, cache_key>>

Next ==
    \/ \E p \in DOMAIN fs : CallHit(p)
    \/ \E p \in DOMAIN fs : CallMiss(p)
    \/ OpenArchive
    \/ ReadMember
    \/ SelectBuildItems
    \/ FallbackEmptyManifest
    \/ FallbackNoRoot
    \/ CollectItem
    \/ CollectDone
    \/ CollectEnter
    \/ CollectComponent
    \/ CollectReturn
    \/ ReturnNone
    \/ Encode
    \/ Respond

\* conversions of a file that is not modified
Spec == Init /\ [][Next]_vars

\* lines 101-119: a collect() call in progress takes its next step
ResolveStep ==
    CollectItem \/ CollectDone \/ CollectEnter \/ CollectComponent
    \/ CollectReturn

\* conversions whose resolution is not suspended for ever
SpecResolve == Init /\ [][Next]_vars /\ WF_vars(ResolveStep)

\* two files, each a small archive; they may hold the same content
InitTouch ==
    /\ fs \in [CachePaths -> {[mtime |-> 0, archive |-> a] : a \in SmallArchives}]
    /\ waiting = <<>>
    /\ project = NoProject
    /\ InitProcess

NextTouch ==
    \/ Next
    \/ \E p \in DOMAIN fs : Touch(p)

\* conversions of a file whose modification time changes between calls
SpecTouch == InitTouch /\ [][NextTouch]_vars

\* the file is replaced by another process: new content, a new modification
\* time. The file keeps account of what it held before. A ZipFile that is
\* open already goes on reading the file it opened.
Rewrite(p, a) ==
    /\ touches < MaxTouch
    /\ touches' = touches + 1
    /\ fs' = [fs EXCEPT ![p] = [mtime |-> @.mtime + 1,
                                archive |-> a,
                                before |-> Append(@.before, @.archive)]]
    /\ UNCHANGED <<stl_cache, waiting, project, pc, filepath, cache_key, locals, ret,
                   response>>

\* one file, a small archive that has not been replaced yet
InitRewrite ==
    /\ fs \in [Paths -> {[mtime |-> 0, archive |-> a, before |-> <<>>] :
                            a \in SmallArchives}]
    /\ waiting = <<>>
    /\ project = NoProject
    /\ InitProcess

NextRewrite ==
    \/ Next
    \/ \E p \in DOMAIN fs : \E a \in SmallArchives : Rewrite(p, a)

\* conversions of a file that another process replaces at any moment
SpecRewrite == InitRewrite /\ [][NextRewrite]_vars

\* ---------------------------------------------- build.py convert_3mf_to_stl

\* build.py lines 64-67: the build-time converter is called; it reads no
\* modification time and has no cache key
BuildCall(p) ==
    /\ pc = "idle"
    /\ filepath' = p
    /\ cache_key' = <<>>
    /\ SetAcc(EmptyAcc)
    /\ ret' = Pending
    /\ pc' = "open"
    /\ UNCHANGED <<fs, touches, waiting, project, stl_cache, z, idx, model_data,
                   build_items, item, stack, response>>

\* the build-time converter is the one that runs
Building == cache_key = <<>>

\* build.py lines 69-117 are app.py lines 83-131 letter for letter: reading
\* the archive, flattening, and the return of None
ConvertStep ==
    \/ OpenArchive
    \/ ReadMember
    \/ SelectBuildItems
    \/ FallbackEmptyManifest
    \/ FallbackNoRoot
    \/ CollectItem
    \/ CollectDone
    \/ CollectEnter
    \/ CollectComponent
    \/ CollectReturn
    \/ ReturnNone

\* BuildEncode leaving the triangle count out of the buffer
BuildEncodeNoCount ==
    /\ Building
    /\ pc = "encode"
    /\ Len(all_tris) \div 3 # 0
    /\ LET encoded == EncodeStl(all_verts, all_tris, Len(all_tris) \div 3)
       IN IF encoded.ok
          THEN /\ ret' = [kind |-> "bytes",
                          data |-> [i \in 1..Len(encoded.buf) |->
                                      IF i > HeaderLen /\ i <= HeaderLen + CountLen
                                      THEN 0 ELSE encoded.buf[i]]]
               /\ pc' = "ret144"
          ELSE /\ ret' = Raised(encoded.exc)
               /\ pc' = "raised"
    /\ UNCHANGED <<fs, touches, waiting, project, stl_cache, filepath, cache_key, locals,
                   response>>

\* build.py lines 119-144: encode and return the bytes; nothing is stored
BuildEncode ==
    /\ Building
    /\ pc = "encode"
    /\ Len(all_tris) \div 3 # 0
    /\ LET encoded == EncodeStl(all_verts, all_tris, Len(all_tris) \div 3)
       IN IF encoded.ok
          THEN /\ ret' = [kind |-> "bytes", data |-> encoded.buf]
               /\ pc' = "ret144"
          ELSE /\ ret' = Raised(encoded.exc)
               /\ pc' = "raised"
    /\ UNCHANGED <<fs, touches, waiting, project, stl_cache, filepath, cache_key, locals,
                   response>>

\* the build-time call is over (None is the return of build.py line 117)
BuildReturned == Building /\ pc \in {"ret131", "ret144", "raised"}

\* build.py lines 160-171: main() takes the outcome; the locals are gone
BuildDone ==
    /\ BuildReturned
    /\ pc' = "idle"
    /\ ret' = Pending
    /\ z' = <<>>
    /\ idx' = 0
    /\ model_data' = <<>>
    /\ SetAcc(EmptyAcc)
    /\ build_items' = <<>>
    /\ item' = 0
    /\ stack' = <<>>
    /\ UNCHANGED <<fs, touches, waiting, project, stl_cache, filepath, cache_key,
                   response>>

NextBuild ==
    \/ \E p \in DOMAIN fs : CallHit(p)
    \/ \E p \in DOMAIN fs : CallMiss(p)
    \/ \E p \in DOMAIN fs : BuildCall(p)
    \/ ConvertStep
    \/ ~Building /\ Encode
    \/ ~Building /\ Respond
    \/ BuildEncode
    \/ BuildDone

\* the file is converted by the build script and by the server, in any order
SpecBuild == Init /\ [][NextBuild]_vars

\* ------------------------------------------------------- stl_convert, paths

\* a path is the sequence of its pieces: "/" and pieces of names, so that
\* str.startswith is the prefix of sequences

\* s.startswith(prefix)
StartsWith(s, prefix) ==
    Len(prefix) <= Len(s) /\ SubSeq(s, 1, Len(prefix)) = prefix

\* path.split('/')
RECURSIVE Split(_)
Split(path) ==
    IF \A i \in 1..Len(path) : path[i] # "/" THEN <<path>>
    ELSE LET k == CHOOSE i \in 1..Len(path) :
                      path[i] = "/" /\ \A j \in 1..(i - 1) : path[j] # "/"
         IN <<SubSeq(path, 1, k - 1)>> \o Split(SubSeq(path, k + 1, Len(path)))

\* '/'.join(comps)
RECURSIVE JoinComps(_)
JoinComps(comps) ==
    IF comps = <<>> THEN <<>>
    ELSE IF Len(comps) = 1 THEN comps[1]
    ELSE comps[1] \o <<"/">> \o JoinComps(Tail(comps))

\* os.path.join(a, b)
PathJoin(a, b) ==
    IF StartsWithSlash(b) THEN b
    ELSE IF a = <<>> \/ Last(a) = "/" THEN a \o b
    ELSE a \o <<"/">> \o b

\* the loop of posixpath.normpath over the components
RECURSIVE NormComps(_, _, _)
NormComps(comps, new_comps, absolute) ==
    IF comps = <<>> THEN new_comps
    ELSE LET comp == Head(comps)
         IN IF comp = <<>> \/ comp = <<".">>
            THEN NormComps(Tail(comps), new_comps, absolute)
            ELSE IF \/ comp # <<"..">>
                    \/ (~absolute /\ new_comps = <<>>)
                    \/ (new_comps # <<>> /\ Last(new_comps) = <<"..">>)
            THEN NormComps(Tail(comps), Append(new_comps, comp), absolute)
            ELSE IF new_comps # <<>>
            THEN NormComps(Tail(comps),
                           SubSeq(new_comps, 1, Len(new_comps) - 1), absolute)
            ELSE NormComps(Tail(comps), new_comps, absolute)

\* os.path.normpath(path)
NormPath(path) ==
    LET absolute == StartsWithSlash(path)
        joined == JoinComps(NormComps(Split(path), <<>>, absolute))
        normed == IF absolute THEN <<"/">> \o joined ELSE joined
    IN IF normed = <<>> THEN <<".">> ELSE normed

\* os.path.basename(path)
BaseName(path) == Last(Split(path))

\* MODELS_DIR, with the application installed in /app
MODELS_DIR == <<"/", "app", "/", "models">>

\* the names a request may carry
Filenames ==
    {<<"cube", ".3mf">>,
     <<"sub", "/", "cube", ".3mf">>,
     <<"sub", "/", "..", "/", "cube", ".3mf">>,
     <<"deep", ".3mf">>,
     <<"gone", "/", "cube", ".3mf">>,
     <<"missing", ".3mf">>,
     <<"..">>,
     <<"..", "/", "models">>,
     <<"..", "/", "..", "/", "etc", "/", "passwd">>,
     <<"..", "/", "secret", "/", "cube", ".3mf">>,
     <<"..", "/", "models", "_old", "/", "cube", ".3mf">>,
     <<"..", "/", "models", "_old", "/", "deep", ".3mf">>}

\* the files the disk may hold
DiskFiles ==
    {MODELS_DIR \o <<"/", "cube", ".3mf">>,
     MODELS_DIR \o <<"/", "sub", "/", "cube", ".3mf">>,
     MODELS_DIR \o <<"/", "sub", "/", "deep", ".3mf">>,
     <<"/", "app", "/", "models", "_old", "/", "cube", ".3mf">>,
     <<"/", "app", "/", "secret", "/", "cube", ".3mf">>,
     <<"/", "etc", "/", "passwd">>}

\* what the files hold: one content for all of them
RouteArchives ==
    {[zip |-> FALSE],
     [zip |-> TRUE, members |-> <<>>],
     [zip |-> TRUE, members |-> <<[name |-> RootName, data |-> "XSingle"]>>],
     [zip |-> TRUE, members |-> <<[name |-> RootName, data |-> "XAssembly"]>>],
     [zip |-> TRUE, members |-> <<[name |-> RootName, data |-> "XNoBuild"]>>],
     [zip |-> TRUE, members |-> <<[name |-> PartName, data |-> "XSingle"]>>]}

\* the directories of MODELS_DIR in the order os.walk visits them
WalkDirs == <<MODELS_DIR, MODELS_DIR \o <<"/", "sub">>>>

\* lines 179-183: the walk over MODELS_DIR from the k-th directory on; the
\* break leaves only the loop over one directory's files
RECURSIVE Walk(_, _, _)
Walk(k, name, safe_path) ==
    IF k > Len(WalkDirs) THEN safe_path
    ELSE IF PathJoin(WalkDirs[k], name) \in DOMAIN fs
    THEN Walk(k + 1, name, PathJoin(WalkDirs[k], name))
    ELSE Walk(k + 1, name, safe_path)

\* lines 174-185: what stl_convert does with the name before it converts
RoutePath(filename) ==
    LET safe_path == NormPath(PathJoin(MODELS_DIR, filename))
    IN IF ~StartsWith(safe_path, NormPath(MODELS_DIR))
       THEN [status |-> 403]
       ELSE IF safe_path \in DOMAIN fs
       THEN [status |-> 0, path |-> safe_path]
       ELSE LET found == Walk(1, BaseName(filename), safe_path)
            IN IF found \in DOMAIN fs
               THEN [status |-> 0, path |-> found]
               ELSE [status |-> 404]

\* line 176: abort(403)
RouteForbidden(filename) ==
    /\ pc = "idle"
    /\ RoutePath(filename).status = 403
    /\ response' = [status |-> 403]
    /\ UNCHANGED <<fs, touches, waiting, project, stl_cache, pc, filepath, cache_key,
                   locals, ret>>

\* line 185: the file is nowhere
RouteNotFound(filename) ==
    /\ pc = "idle"
    /\ RoutePath(filename).status = 404
    /\ response' = [status |-> 404, body |-> [ok |-> FALSE, error |-> filename]]
    /\ UNCHANGED <<fs, touches, waiting, project, stl_cache, pc, filepath, cache_key,
                   locals, ret>>

\* line 187: convert_3mf_to_stl(safe_path)
RouteConvert(filename) ==
    /\ RoutePath(filename).status = 0
    /\ \/ CallHit(RoutePath(filename).path)
       \/ CallMiss(RoutePath(filename).path)

\* a disk with some of the files, no request yet
InitRoute ==
    /\ fs \in UNION {[disk -> {[mtime |-> 0, archive |-> a]}] :
                        disk \in SUBSET DiskFiles, a \in RouteArchives}
    /\ waiting = <<>>
    /\ project = NoProject
    /\ InitProcess

NextRoute ==
    \/ \E filename \in Filenames : RouteForbidden(filename)
    \/ \E filename \in Filenames : RouteNotFound(filename)
    \/ \E filename \in Filenames : RouteConvert(filename)
    \/ ConvertStep
    \/ Encode
    \/ Respond

\* requests to /stl/<path:filename>
SpecRoute == InitRoute /\ [][NextRoute]_vars

\* -------------------------------------------- scan_3d_models.py, classifying

\* text is a sequence of characters, a character of the CJK block written
\* "U+" and its code point. The categories are named tools (3D printing
\* tools), storage (storage and stands), toys, and decor (decoration and
\* models), for the four keys of CATEGORY_RULES in their order.

\* CATEGORY_RULES["tools"]["keywords"], a character a piece
Keywords_tools ==
    <<<<"b", "a", "m", "b", "u">>, <<"p", "1", "s">>, <<"p", "1", "p">>,
      <<"a", "1">>, <<"a", "1", "m", "i", "n", "i">>, <<"k", "1">>,
      <<"k", "1", "m", "a", "x">>, <<"h", "o", "t", "e", "n", "d">>,
      <<"f", "a", "n">>, <<"s", "p", "o", "o", "l">>, <<"l", "e", "d">>,
      <<"p", "l", "a", "t", "e">>, <<"n", "o", "z", "z", "l", "e">>,
      <<"e", "x", "t", "r", "u", "d", "e", "r">>,
      <<"f", "i", "l", "a", "m", "e", "n", "t">>, <<"a", "m", "s">>,
      <<"f", "l", "i", "p", "p", "e", "r">>, <<"d", "u", "c", "t">>,
      <<"s", "h", "r", "o", "u", "d">>, <<"m", "o", "d">>,
      <<"u", "p", "g", "r", "a", "d", "e">>,
      <<"a", "d", "a", "p", "t", "e", "r">>, <<"m", "o", "u", "n", "t">>,
      <<"s", "e", "n", "s", "o", "r">>, <<"p", "t", "f", "e">>,
      <<"c", "o", "u", "p", "l", "e", "r">>,
      <<"c", "o", "o", "l", "i", "n", "g">>,
      <<"h", "e", "a", "t", "e", "r">>,
      <<"p", "r", "i", "n", "t", "e", "r">>,
      <<"c", "a", "l", "i", "b", "r", "a", "t">>,
      <<"b", "e", "n", "c", "h", "y">>, <<"t", "e", "s", "t">>,
      <<"t", "o", "l", "e", "r", "a", "n", "c", "e">>,
      <<"s", "p", "o", "o", "l", " ", "h", "o", "l", "d", "e", "r">>,
      <<"b", "e", "d">>, <<"l", "e", "v", "e", "l", "i", "n", "g">>,
      <<"f", "i", "r", "m", "w", "a", "r", "e">>,
      <<"p", "a", "i", "n", "t", "e", "r">>, <<"p", "a", "i", "n", "t">>,
      <<"c", "h", "r", "o", "m", "a">>>>

\* CATEGORY_RULES["storage"]["keywords"], a character a piece
Keywords_storage ==
    <<<<"b", "o", "x">>, <<"c", "a", "s", "e">>, <<"h", "o", "o", "k">>,
      <<"k", "i", "t", "c", "h", "e", "n">>, <<"d", "e", "s", "k">>,
      <<"o", "r", "g", "a", "n", "i", "z", "e", "r">>,
      <<"h", "o", "l", "d", "e", "r">>, <<"s", "t", "a", "n", "d">>,
      <<"s", "h", "e", "l", "f">>, <<"r", "a", "c", "k">>,
      <<"t", "r", "a", "y">>,
      <<"c", "o", "n", "t", "a", "i", "n", "e", "r">>, <<"b", "i", "n">>,
      <<"b", "a", "s", "k", "e", "t">>, <<"c", "a", "d", "d", "y">>,
      <<"m", "o", "u", "n", "t">>, <<"b", "r", "a", "c", "k", "e", "t">>,
      <<"h", "a", "n", "g", "e", "r">>, <<"r", "e", "m", "o", "t", "e">>,
      <<"p", "h", "o", "n", "e">>, <<"t", "a", "b", "l", "e", "t">>,
      <<"c", "a", "b", "l", "e">>, <<"c", "h", "a", "r", "g", "e", "r">>,
      <<"b", "o", "w", "l">>, <<"v", "a", "s", "s", "o", "i", "o">>,
      <<"e", "d", "g", "e">>, <<"p", "e", "n">>,
      <<"p", "e", "n", "c", "i", "l">>, <<"c", "u", "p">>,
      <<"s", "t", "o", "r", "a", "g", "e">>,
      <<"d", "r", "a", "w", "e", "r">>,
      <<"c", "a", "b", "i", "n", "e", "t">>, <<"s", "l", "o", "t">>,
      <<"d", "o", "c", "k">>, <<"g", "l", "a", "s", "s", "e", "s">>,
      <<"e", "y", "e", "g", "l", "a", "s", "s">>,
      <<"j", "e", "w", "e", "l", "r", "y">>, <<"w", "a", "t", "c", "h">>,
      <<"k", "e", "y">>, <<"w", "a", "l", "l", "e", "t">>,
      <<"l", "a", "m", "p">>, <<"l", "i", "g", "h", "t">>, <<"U+706F">>,
      <<"U+7897">>, <<"U+7B14", "U+7B52">>, <<"U+6536", "U+7EB3">>,
      <<"U+6258", "U+76D8">>, <<"U+652F", "U+67B6">>, <<"U+67B6">>,
      <<"U+76D2">>>>

\* CATEGORY_RULES["toys"]["keywords"], a character a piece
Keywords_toys ==
    <<<<"f", "i", "g", "u", "r", "e">>, <<"d", "r", "a", "g", "o", "n">>,
      <<"p", "o", "k", "e", "m", "o", "n">>, <<"t", "o", "y">>,
      <<"a", "r", "t">>, <<"s", "t", "a", "t", "u", "e">>,
      <<"b", "u", "s", "t">>,
      <<"m", "i", "n", "i", "a", "t", "u", "r", "e">>,
      <<"m", "i", "n", "i">>, <<"d", "o", "l", "l">>,
      <<"a", "c", "t", "i", "o", "n">>, <<"r", "o", "b", "o", "t">>,
      <<"m", "e", "c", "h">>, <<"g", "u", "n", "d", "a", "m">>,
      <<"a", "n", "i", "m", "e">>, <<"g", "a", "m", "e">>,
      <<"c", "h", "e", "s", "s">>, <<"d", "i", "c", "e">>,
      <<"p", "u", "z", "z", "l", "e">>, <<"f", "i", "d", "g", "e", "t">>,
      <<"s", "p", "i", "n", "n", "e", "r">>, <<"g", "y", "r", "o">>,
      <<"c", "a", "r">>, <<"v", "e", "h", "i", "c", "l", "e">>,
      <<"t", "a", "n", "k">>, <<"p", "l", "a", "n", "e">>,
      <<"s", "h", "i", "p">>, <<"r", "o", "c", "k", "e", "t">>,
      <<"s", "w", "o", "r", "d">>, <<"w", "e", "a", "p", "o", "n">>,
      <<"c", "o", "s", "p", "l", "a", "y">>, <<"m", "a", "s", "k">>,
      <<"h", "e", "l", "m", "e", "t">>, <<"a", "r", "m", "o", "r">>,
      <<"U+9640", "U+87BA">>, <<"U+7206", "U+7532">>,
      <<"U+5C0F", "U+8F66">>, <<"U+6F02", "U+79FB">>,
      <<"U+73A9", "U+5177">>, <<"o", "r", "b", "i", "t">>,
      <<"b", "u", "r", "s", "t">>, <<"g", "y", "r", "o">>>>

\* CATEGORY_RULES["decor"]["keywords"], a character a piece
Keywords_decor ==
    <<<<"d", "e", "c", "o", "r">>, <<"v", "a", "s", "e">>,
      <<"s", "c", "u", "l", "p", "t", "u", "r", "e">>,
      <<"o", "r", "n", "a", "m", "e", "n", "t">>, <<"w", "a", "l", "l">>,
      <<"s", "i", "g", "n">>, <<"p", "l", "a", "q", "u", "e">>,
      <<"l", "i", "t", "h", "o", "p", "h", "a", "n", "e">>,
      <<"p", "h", "o", "t", "o">>, <<"f", "r", "a", "m", "e">>,
      <<"f", "l", "o", "w", "e", "r">>, <<"p", "l", "a", "n", "t">>,
      <<"p", "o", "t">>, <<"g", "a", "r", "d", "e", "n">>,
      <<"o", "u", "t", "d", "o", "o", "r">>,
      <<"c", "h", "r", "i", "s", "t", "m", "a", "s">>,
      <<"h", "a", "l", "l", "o", "w", "e", "e", "n">>,
      <<"e", "a", "s", "t", "e", "r">>,
      <<"h", "o", "l", "i", "d", "a", "y">>, <<"s", "k", "u", "l", "l">>,
      <<"s", "k", "e", "l", "e", "t", "o", "n">>,
      <<"a", "n", "i", "m", "a", "l">>, <<"c", "a", "t">>,
      <<"d", "o", "g">>, <<"b", "i", "r", "d">>,
      <<"m", "a", "n", "d", "a", "l", "a">>,
      <<"g", "e", "o", "m", "e", "t", "r", "i", "c">>,
      <<"a", "b", "s", "t", "r", "a", "c", "t">>,
      <<"m", "o", "d", "e", "r", "n">>, <<"U+7248", "U+753B">>,
      <<"U+5343", "U+590F">>, <<"U+753B">>, <<"U+6D6E", "U+96D5">>,
      <<"U+827A", "U+672F">>, <<"U+6446", "U+4EF6">>,
      <<"U+88C5", "U+9970">>, <<"r", "e", "l", "i", "e", "f">>,
      <<"p", "r", "i", "n", "t">>,
      <<"p", "o", "r", "t", "r", "a", "i", "t">>>>

\* CATEGORY_RULES.items(), in the order of the dict
CATEGORY_RULES ==
    <<[cat |-> "tools", keywords |-> Keywords_tools],
      [cat |-> "storage", keywords |-> Keywords_storage],
      [cat |-> "toys", keywords |-> Keywords_toys],
      [cat |-> "decor", keywords |-> Keywords_decor]>>

UpperCase ==
    <<"A", "B", "C", "D", "E", "F", "G", "H", "I", "J", "K", "L", "M", "N", "O",
      "P", "Q", "R", "S", "T", "U", "V", "W", "X", "Y", "Z">>

LowerCase ==
    <<"a", "b", "c", "d", "e", "f", "g", "h", "i", "j", "k", "l", "m", "n", "o",
      "p", "q", "r", "s", "t", "u", "v", "w", "x", "y", "z">>

\* str.lower()
Lower(text) ==
    [i \in 1..Len(text) |->
        IF \E k \in 1..26 : UpperCase[k] = text[i]
        THEN LowerCase[CHOOSE k \in 1..26 : UpperCase[k] = text[i]]
        ELSE text[i]]

\* kw in search_text
Contains(search_text, kw) ==
    \E i \in 0..(Len(search_text) - Len(kw)) :
        SubSeq(search_text, i + 1, i + Len(kw)) = kw

\* lines 235-237: " " + f["filename"].lower() for each file
RECURSIVE FileText(_)
FileText(files) ==
    IF files = <<>> THEN <<>>
    ELSE <<" ">> \o Lower(Head(files).filename) \o FileText(Tail(files))

\* lines 235-239: the search text; a title that is None or empty adds nothing
SearchText(project_key, files, metadata_title) ==
    Lower(project_key) \o FileText(files)
    \o (IF metadata_title # <<>> THEN <<" ">> \o Lower(metadata_title)
        ELSE <<>>)

\* lines 243-246: one point for every keyword of the list found in the text
RECURSIVE Score(_, _)
Score(keywords, search_text) ==
    IF keywords = <<>> THEN 0
    ELSE (IF Contains(search_text, Lower(Head(keywords))) THEN 1 ELSE 0)
         + Score(Tail(keywords), search_text)

\* lines 241-247: scores, in the order of CATEGORY_RULES
Scores(search_text) ==
    [i \in 1..Len(CATEGORY_RULES) |->
        [k |-> CATEGORY_RULES[i].cat,
         v |-> Score(CATEGORY_RULES[i].keywords, search_text)]]

\* max(scores.values())
MaxScore(scores) ==
    CHOOSE m \in {scores[i].v : i \in 1..Len(scores)} :
        \A i \in 1..Len(scores) : scores[i].v <= m

\* line 250
priority == <<"storage", "toys", "decor", "tools">>

\* scores.get(c, 0)
ScoreGet(scores, c) == IF DictHas(scores, c) THEN DictGet(scores, c) ELSE 0

\* classify_project with the order of CAT_ORDER for the ties
classify_project_cat_order(project_key, files, metadata_title) ==
    LET scores == Scores(SearchText(project_key, files, metadata_title))
        best_score == MaxScore(scores)
        tied == SelectSeq(<<"storage", "tools", "toys", "decor">>,
                          LAMBDA c : ScoreGet(scores, c) = best_score)
    IN IF best_score = 0 THEN "decor"
       ELSE IF tied # <<>> THEN tied[1]
       ELSE scores[CHOOSE i \in 1..Len(scores) : scores[i].v = best_score].k

\* lines 232-256
classify_project(project_key, files, metadata_title) ==
    LET scores == Scores(SearchText(project_key, files, metadata_title))
        best_score == MaxScore(scores)
        tied == SelectSeq(priority, LAMBDA c : ScoreGet(scores, c) = best_score)
    IN IF best_score = 0 THEN "decor"
       ELSE IF tied # <<>> THEN tied[1]
       ELSE scores[CHOOSE i \in 1..Len(scores) :
                      /\ scores[i].v = best_score
                      /\ \A j \in 1..(i - 1) : scores[j].v # best_score].k

\* the keys of the projects the scan may find
ProjectKeys ==
    {<<"P", "r", "i", "n", "t", "e", "r">>,
     <<"a", "1", "m", "i", "n", "i">>,
     <<"L", "E", "D", "_", "L", "a", "m", "p">>,
     <<"m", "o", "u", "n", "t">>,
     <<"G", "y", "r", "o">>,
     <<"x", "y", "z">>,
     <<"c", "a", "t">>,
     <<"R", "o", "b", "o", "t", " ", "B", "o", "x">>,
     <<"U+706F">>}

\* the names of the files of a project
ProjectFiles ==
    {[filename |-> <<"b", "e", "n", "c", "h", "y", ".", "s", "t", "l">>],
     [filename |-> <<"V", "a", "s", "e", ".", "3", "m", "f">>],
     [filename |-> <<"d", "r", "a", "g", "o", "n", ".", "s", "t", "l">>],
     [filename |-> <<"p", "a", "r", "t", ".", "s", "t", "l">>]}

\* the title in the 3MF metadata: none (or empty), or one of two
ProjectTitles ==
    {<<>>,
     <<"D", "i", "c", "e", " ", "T", "r", "a", "y">>,
     <<"S", "p", "o", "o", "l", " ", "H", "o", "l", "d", "e", "r">>}

\* line 376: category = classify_project(project_key, files, metadata_title)
Classify(project_key, files, metadata_title) ==
    /\ project.category = ""
    /\ project' = [project EXCEPT
                      !.category = classify_project(project_key, files,
                                                    metadata_title)]
    /\ UNCHANGED <<fs, touches, waiting, stl_cache, pc, filepath, cache_key,
                   locals, ret, response>>

NextScan == Classify(project.key, project.files, project.title)

\* the scan converts nothing: no archive is read and no request is waiting;
\* the project is one of those the scan may find, not yet classified
InitScan ==
    /\ fs = <<>>
    /\ InitProcess
    /\ waiting = <<>>
    /\ project \in [key : ProjectKeys,
                    files : UNION {[1..k -> ProjectFiles] : k \in 0..MaxFiles},
                    title : ProjectTitles,
                    category : {""}]

\* classify_project applied to every project the scan may find
SpecScan == InitScan /\ [][NextScan]_vars

\* what a request thread keeps while another thread runs: its position and
\* the locals of its call
Running ==
    [pc |-> pc, filepath |-> filepath, cache_key |-> cache_key, z |-> z,
     idx |-> idx, model_data |-> model_data, all_verts |-> all_verts,
     all_tris |-> all_tris, vert_offset |-> vert_offset,
     build_items |-> build_items, item |-> item, stack |-> stack, ret |-> ret,
     response |-> response]

\* a request that has not called convert_3mf_to_stl yet
NewRequest ==
    [pc |-> "idle", filepath |-> "", cache_key |-> <<>>, z |-> <<>>, idx |-> 0,
     model_data |-> <<>>, all_verts |-> <<>>, all_tris |-> <<>>,
     vert_offset |-> 0, build_items |-> <<>>, item |-> 0, stack |-> <<>>,
     ret |-> Pending, response |-> NoResponse]

\* the interpreter switches threads: the running request waits and the first
\* waiting one goes on where it was; _stl_cache and the files are shared
Switch ==
    /\ waiting # <<>>
    /\ waiting' = Append(Tail(waiting), Running)
    /\ pc' = Head(waiting).pc
    /\ filepath' = Head(waiting).filepath
    /\ cache_key' = Head(waiting).cache_key
    /\ z' = Head(waiting).z
    /\ idx' = Head(waiting).idx
    /\ model_data' = Head(waiting).model_data
    /\ all_verts' = Head(waiting).all_verts
    /\ all_tris' = Head(waiting).all_tris
    /\ vert_offset' = Head(waiting).vert_offset
    /\ build_items' = Head(waiting).build_items
    /\ item' = Head(waiting).item
    /\ stack' = Head(waiting).stack
    /\ ret' = Head(waiting).ret
    /\ response' = Head(waiting).response
    /\ UNCHANGED <<fs, touches, stl_cache, project>>

\* two requests for the same file arrive at a process whose cache is empty
InitRace ==
    /\ fs \in [Paths -> {[mtime |-> 0, archive |-> a] : a \in SmallArchives}]
    /\ waiting = <<NewRequest>>
    /\ project = NoProject
    /\ InitProcess

\* the running request has not been answered
Unanswered == response = NoResponse

\* a step of the running request, which makes one call, other than the
\* encoding
RequestStep ==
    \/ \E p \in DOMAIN fs : Unanswered /\ CallHit(p)
    \/ \E p \in DOMAIN fs : Unanswered /\ CallMiss(p)
    \/ OpenArchive
    \/ ReadMember
    \/ SelectBuildItems
    \/ FallbackEmptyManifest
    \/ FallbackNoRoot
    \/ CollectItem
    \/ CollectDone
    \/ CollectEnter
    \/ CollectComponent
    \/ CollectReturn
    \/ ReturnNone
    \/ Respond

NextRace ==
    \/ RequestStep
    \/ Encode
    \/ Switch

\* the running request is about to encode: Encode is enabled
EncodeEnabled == pc = "encode" /\ Len(all_tris) \div 3 # 0

\* two concurrent requests for one file that is not modified. The scheduler
\* lets every thread that can run do so: a step that is possible again and
\* again is taken. For Encode, which a request takes at most once, that is
\* SF_vars(Encode) written out: Encode is not enabled again and again for ever.
SpecRace ==
    /\ InitRace
    /\ [][NextRace]_vars
    /\ WF_vars(Switch)
    /\ SF_vars(RequestStep)
    /\ <>[]~EncodeEnabled

TypeOK ==
    /\ pc \in {"idle", "open", "read", "collect", "encode", "ret77", "ret131",
               "ret161", "ret144", "raised"}
    /\ Len(all_verts) = 3 * vert_offset
    /\ Len(all_tris) % 3 = 0

\* the floats of the model are exact on the catalogue: the length of every
\* cross product the encoder takes is an integer that divides its components
ExactGeometry ==
    pc = "ret161" =>
        \A i \in 0..(Len(all_tris) \div 3 - 1) :
            LET a == VertexAt(all_verts, all_tris[3 * i + 1] * 3).val
                b == VertexAt(all_verts, all_tris[3 * i + 2] * 3).val
                c == VertexAt(all_verts, all_tris[3 * i + 3] * 3).val
                ux == FSub(b[1], a[1])
                uy == FSub(b[2], a[2])
                uz == FSub(b[3], a[3])
                vx == FSub(c[1], a[1])
                vy == FSub(c[2], a[2])
                vz == FSub(c[3], a[3])
                nx == FSub(FMul(uy, vz), FMul(uz, vy)).mag
                ny == FSub(FMul(uz, vx), FMul(ux, vz)).mag
                nz == FSub(FMul(ux, vy), FMul(uy, vx)).mag
                sq == nx * nx + ny * ny + nz * nz
            IN \E k \in 0..sq :
                   /\ k * k = sq
                   /\ k > 0 => (nx % k = 0 /\ ny % k = 0 /\ nz % k = 0)

\* ------------------------------------------------- reading the STL bytes back

\* the unsigned little-endian integer of the 4 bytes at a 0-based offset
U32At(data, offset) ==
    data[offset + 1] + 256 * data[offset + 2] + 65536 * data[offset + 3]
    + 16777216 * data[offset + 4]

\* the integer a binary32 at a 0-based offset stands for (an integer-valued
\* float of magnitude < 2^24; -0.0 reads as 0)
F32At(data, offset) ==
    LET b1 == data[offset + 1]
        b2 == data[offset + 2]
        b3 == data[offset + 3]
        b4 == data[offset + 4]
        exponent == (b4 % 128) * 2 + (b3 \div 128)
        fraction == (b3 % 128) * 65536 + b2 * 256 + b1
        mag == IF exponent = 0 THEN 0
               ELSE IF exponent >= 150
               THEN (Pow2(23) + fraction) * Pow2(exponent - 150)
               ELSE (Pow2(23) + fraction) \div Pow2(150 - exponent)
    IN IF b4 >= 128 THEN -mag ELSE mag

\* the three floats at a 0-based offset, as integers
Vec3At(data, offset) ==
    <<F32At(data, offset), F32At(data, offset + 4), F32At(data, offset + 8)>>

\* the value of a float of the model, as an integer
Value(f) == IF f.neg THEN -f.mag ELSE f.mag

Values3(v, k) == <<Value(v[3 * k + 1]), Value(v[3 * k + 2]), Value(v[3 * k + 3])>>

Cross(a, b, c) ==
    LET u == <<b[1] - a[1], b[2] - a[2], b[3] - a[3]>>
        w == <<c[1] - a[1], c[2] - a[2], c[3] - a[3]>>
    IN <<u[2] * w[3] - u[3] * w[2], u[3] * w[1] - u[1] * w[3],
         u[1] * w[2] - u[2] * w[1]>>

Dot(a, b) == a[1] * b[1] + a[2] * b[2] + a[3] * b[3]

\* n is the zero vector for a degenerate triangle, else the unit vector along
\* the cross product
IsNormalOf(n, a, b, c) ==
    LET x == Cross(a, b, c)
    IN IF x = <<0, 0, 0>> THEN n = <<0, 0, 0>>
       ELSE /\ Dot(n, n) = 1
            /\ Dot(n, x) > 0
            /\ Dot(n, x) * Dot(n, x) = Dot(x, x)

\* ------------------------------------------- the resolution, stated directly

\* the call ran on a cache miss and the flattening is complete
Flattened == pc \in {"encode", "ret131", "ret161"}

\* the call ran on a cache miss and is over
ReturnedMiss == pc \in {"ret131", "ret161", "raised"}

TargetDocument(comp_path, current) ==
    IF comp_path = <<>> THEN current
    ELSE IF Head(comp_path) = "/" THEN comp_path
    ELSE <<"/">> \o comp_path

\* the meshes resolve(oid, path) contributes, in order: the object's own
\* mesh, then what each of its components contributes
RECURSIVE Contribution(_, _, _)
RECURSIVE ComponentContributions(_, _, _)
Contribution(oid, path, fuel) ==
    IF fuel = 0 \/ ~DictHas(model_data, path) THEN <<>>
    ELSE LET doc == DictGet(model_data, path)
         IN (IF DictHas(doc.meshes, oid)
             THEN <<DictGet(doc.meshes, oid)>> ELSE <<>>)
            \o (IF DictHas(doc.comps, oid)
                THEN ComponentContributions(DictGet(doc.comps, oid), path,
                                            fuel - 1)
                ELSE <<>>)

ComponentContributions(cs, path, fuel) ==
    IF cs = <<>> THEN <<>>
    ELSE Contribution(Head(cs).oid, TargetDocument(Head(cs).path, path), fuel)
         \o ComponentContributions(Tail(cs), path, fuel)

RECURSIVE ItemContributions(_)
ItemContributions(items) ==
    IF items = <<>> THEN <<>>
    ELSE Contribution(Head(items), main_key, MaxDepth)
         \o ItemContributions(Tail(items))

\* the meshes of the dict entries es, in order
RECURSIVE EntryValues(_)
EntryValues(es) ==
    IF es = <<>> THEN <<>> ELSE <<Head(es).v>> \o EntryValues(Tail(es))

\* every mesh registered in every document of the map, in order
RECURSIVE RegisteredMeshes(_)
RegisteredMeshes(docs) ==
    IF docs = <<>> THEN <<>>
    ELSE EntryValues(Head(docs).v.meshes) \o RegisteredMeshes(Tail(docs))

\* vertices of the meshes before the k-th
RECURSIVE VertsBefore(_, _)
VertsBefore(L, k) ==
    IF k <= 1 THEN 0 ELSE VertsBefore(L, k - 1) + (Len(L[k - 1].verts) \div 3)

\* triangle indices of the meshes before the k-th
RECURSIVE IndicesBefore(_, _)
IndicesBefore(L, k) ==
    IF k <= 1 THEN 0 ELSE IndicesBefore(L, k - 1) + Len(L[k - 1].tris)

\* the buffers hold the meshes of L one after the other, each mesh's indices
\* moved past the vertices before it
IsConcatenationOf(L) ==
    /\ Len(all_verts) = 3 * VertsBefore(L, Len(L) + 1)
    /\ Len(all_tris) = IndicesBefore(L, Len(L) + 1)
    /\ \A k \in 1..Len(L) :
         /\ \A j \in 1..Len(L[k].verts) :
              all_verts[3 * VertsBefore(L, k) + j] = L[k].verts[j]
         /\ \A j \in 1..Len(L[k].tris) :
              all_tris[IndicesBefore(L, k) + j]
                = L[k].tris[j] + VertsBefore(L, k)

RootListed ==
    /\ DictHas(model_data, main_key)
    /\ DictGet(model_data, main_key).build # <<>>

RootUnlisted ==
    /\ DictHas(model_data, main_key)
    /\ DictGet(model_data, main_key).build = <<>>

\* the meshes the call appended, by the mode it ran in
Appended ==
    IF RootListed THEN ItemContributions(DictGet(model_data, main_key).build)
    ELSE RegisteredMeshes(model_data)

\* every index of the mesh is one of its own vertices
WellIndexed(mesh) ==
    \A j \in 1..Len(mesh.tris) :
        mesh.tris[j] >= 0 /\ mesh.tris[j] < Len(mesh.verts) \div 3

TheArchive == fs[filepath].archive

\* ------------------------------------------------------------------- claims

SquareArchive ==
    [zip |-> TRUE, members |-> <<[name |-> RootName, data |-> "XSingle"]>>]

\* C1: whenever the call returns bytes, their length is 84 + 50*N, where N is
\* the little-endian uint32 at bytes 80-83, and on a conversion N is the
\* number of index triples of the flattened triangle buffer; the package with
\* one object of 4 vertices and 2 triangles gives N = 2 and 184 bytes.
C1_StlLength ==
    ret.kind = "bytes" =>
        /\ Len(ret.data) >= 84
        /\ Len(ret.data) = 84 + 50 * U32At(ret.data, 80)
        /\ pc = "ret161" => 3 * U32At(ret.data, 80) = Len(all_tris)
        /\ (pc = "ret161" /\ TheArchive = SquareArchive) =>
               U32At(ret.data, 80) = 2 /\ Len(ret.data) = 184

C1_Witness ==
    /\ pc = "ret161"
    /\ TheArchive = SquareArchive
    /\ Len(ret.data) = 184

\* the mesh of Appended that holds the flattened index at position p (1-based)
MeshOfIndex(L, p) ==
    CHOOSE k \in 1..Len(L) :
        IndicesBefore(L, k) < p /\ p <= IndicesBefore(L, k + 1)

\* the flattened index at position p names, in its source mesh, a vertex
\* with the coordinates xyz (nothing is said of an index that is not a vertex
\* of its own mesh)
IsSourceVertex(L, p, xyz) ==
    LET k == MeshOfIndex(L, p)
    IN WellIndexed(L[k]) =>
           xyz = Values3(L[k].verts, L[k].tris[p - IndicesBefore(L, k)])

\* the vertex buffer is the source meshes' vertex lists, one after the other,
\* value for value
VerticesVerbatim(L) ==
    /\ Len(all_verts) = 3 * VertsBefore(L, Len(L) + 1)
    /\ \A k \in 1..Len(L) :
         \A j \in 1..Len(L[k].verts) :
             all_verts[3 * VertsBefore(L, k) + j] = L[k].verts[j]

\* C2: for every i < N the 50-byte record at offset 84 + 50*i holds the i-th
\* flattened triangle: its normal, the coordinates of the vertices its three
\* indices refer to, which are those of the source mesh untransformed, and a
\* uint16 attribute 0.
C2_RecordLayout ==
    pc = "ret161" =>
        /\ VerticesVerbatim(Appended)
        /\ \A i \in 0..(Len(all_tris) \div 3 - 1) :
            LET off == 84 + 50 * i
                a == Values3(all_verts, all_tris[3 * i + 1])
                b == Values3(all_verts, all_tris[3 * i + 2])
                c == Values3(all_verts, all_tris[3 * i + 3])
            IN /\ IsNormalOf(Vec3At(ret.data, off), a, b, c)
               /\ Vec3At(ret.data, off + 12) = a
               /\ Vec3At(ret.data, off + 24) = b
               /\ Vec3At(ret.data, off + 36) = c
               /\ ret.data[off + 49] = 0
               /\ ret.data[off + 50] = 0
               /\ IsSourceVertex(Appended, 3 * i + 1, a)
               /\ IsSourceVertex(Appended, 3 * i + 2, b)
               /\ IsSourceVertex(Appended, 3 * i + 3, c)

\* bytes of an assembly whose components carry transforms
C2_Witness ==
    /\ pc = "ret161"
    /\ RootListed
    /\ Len(Appended) >= 3
    /\ DictGet(model_data, main_key).comps # <<>>
    /\ \A k \in 1..Len(Appended) : WellIndexed(Appended[k])
    /\ IsSourceVertex(Appended, 7, Vec3At(ret.data, 84 + 50 * 2 + 12))

\* C3 as claimed: every flattened index of the second mesh, appended after the
\* V1 vertices of the first, is >= V1 and < V1 + V2.
C3_AsClaimed ==
    (Flattened /\ Len(Appended) >= 2) =>
        \A j \in 1..Len(Appended[2].tris) :
            LET V1 == VertsBefore(Appended, 2)
                V2 == Len(Appended[2].verts) \div 3
                i == all_tris[IndicesBefore(Appended, 2) + j]
            IN i >= V1 /\ i < V1 + V2

\* C3: every flattened index of a mesh appended after V1 vertices is the local
\* index plus V1, hence >= V1 and < V1 + V2 for a mesh of V2 vertices whose
\* local indices are each >= 0 and < V2.
C3_IndexRemapping ==
    Flattened =>
        \A k \in 1..Len(Appended) :
            \A j \in 1..Len(Appended[k].tris) :
                LET V1 == VertsBefore(Appended, k)
                    V2 == Len(Appended[k].verts) \div 3
                    i == all_tris[IndicesBefore(Appended, k) + j]
                IN /\ i = Appended[k].tris[j] + V1
                   /\ WellIndexed(Appended[k]) => (i >= V1 /\ i < V1 + V2)

\* two meshes were appended and the second one's indices start past the first
C3_Witness ==
    /\ Flattened
    /\ Len(Appended) >= 2
    /\ WellIndexed(Appended[2])
    /\ VertsBefore(Appended, 2) > 0
    /\ \A j \in 1..Len(Appended[2].tris) :
         all_tris[IndicesBefore(Appended, 2) + j] >= VertsBefore(Appended, 2)

\* a mesh of some document that no build item reaches
UnreachedMesh ==
    \E d \in 1..Len(model_data) :
        \E m \in 1..Len(model_data[d].v.meshes) :
            \A k \in 1..Len(Appended) : Appended[k] # model_data[d].v.meshes[m].v

\* C4: when the root document exists and lists build items, the flattened
\* output is the concatenation, in manifest order, of what resolving each
\* build item against the root contributes; a mesh of any document that no
\* build item reaches through components contributes nothing.
C4_BuildItemsResolved ==
    (Flattened /\ RootListed) =>
        IsConcatenationOf(ItemContributions(DictGet(model_data, main_key).build))

\* an assembly over two documents, with a mesh that is left out
C4_Witness ==
    /\ pc = "ret161"
    /\ RootListed
    /\ Len(DictGet(model_data, main_key).build) >= 2
    /\ Len(model_data) >= 2
    /\ Len(Appended) >= 3
    /\ UnreachedMesh

\* C5: when the root document exists and its manifest is empty, every mesh
\* registered in every parsed document is appended exactly once, in order,
\* and no component reference is followed.
C5_FallbackEmptyManifest ==
    (Flattened /\ RootUnlisted) =>
        /\ IsConcatenationOf(RegisteredMeshes(model_data))
        /\ \A d \in 1..Len(model_data) :
             \A m \in 1..Len(model_data[d].v.meshes) :
                 \E k \in 1..Len(RegisteredMeshes(model_data)) :
                     RegisteredMeshes(model_data)[k] = model_data[d].v.meshes[m].v

\* meshes of the root and of another document, and components left alone
C5_Witness ==
    /\ pc = "ret161"
    /\ RootUnlisted
    /\ \E d \in 1..Len(model_data) :
         model_data[d].k # main_key /\ model_data[d].v.meshes # <<>>
    /\ DictGet(model_data, main_key).meshes # <<>>
    /\ DictGet(model_data, main_key).comps # <<>>

\* C6: when no parsed document has the root key, every mesh of every parsed
\* document is appended exactly once, in order, whatever build items the
\* documents list.
C6_FallbackNoRoot ==
    (Flattened /\ ~DictHas(model_data, main_key)) =>
        LET L == RegisteredMeshes(model_data)
        IN /\ Len(all_verts) = 3 * VertsBefore(L, Len(L) + 1)
           /\ Len(all_tris) = IndicesBefore(L, Len(L) + 1)
           /\ IsConcatenationOf(L)

\* two documents, neither the root, one with a manifest of its own
C6_Witness ==
    /\ pc = "ret161"
    /\ ~DictHas(model_data, main_key)
    /\ Len(model_data) >= 2
    /\ \E d \in 1..Len(model_data) : model_data[d].v.build # <<>>
    /\ \A d \in 1..Len(model_data) : model_data[d].v.meshes # <<>>

\* collect(oid, path) finds no document at path, or in it neither a mesh nor
\* components of the object
Dangling(oid, path) ==
    \/ ~DictHas(model_data, path)
    \/ /\ ~DictHas(DictGet(model_data, path).meshes, oid)
       /\ ~DictHas(DictGet(model_data, path).comps, oid)

\* the call raised after the archive was read
RaisedAfterRead == pc = "raised" /\ idx > Len(z)

\* C7: a build item or component that names an object absent from its target
\* document, or a document absent from the map, raises nothing and
\* contributes no vertex and no triangle; what the other build items and
\* components contribute is still converted and returned.
C7_MissingReferenceTolerated ==
    /\ [][(pc = "collect" /\ stack # <<>> /\ Top.next = 0
           /\ Dangling(Top.oid, Top.path))
          => /\ pc' = "collect"
             /\ ret' = ret
             /\ stack' = Pop
             /\ all_verts' = all_verts
             /\ all_tris' = all_tris
             /\ vert_offset' = vert_offset]_vars
    /\ [](RaisedAfterRead => ret.exc \in {"RecursionError", "IndexError"})
    /\ []((pc = "ret161" /\ RootListed) =>
            /\ Len(ret.data) = 84 + 50 * (IndicesBefore(Appended, Len(Appended) + 1) \div 3)
            /\ IsConcatenationOf(Appended))

\* bytes of a root with a dangling build item, a component naming an absent
\* object and a component naming an absent document
C7_Witness ==
    /\ pc = "ret161"
    /\ RootListed
    /\ \E i \in 1..Len(build_items) : Dangling(build_items[i], main_key)
    /\ \E e \in 1..Len(DictGet(model_data, main_key).comps) :
         LET cs == DictGet(model_data, main_key).comps[e].v
         IN /\ \E c \in 1..Len(cs) :
                 /\ cs[c].path = <<>>
                 /\ Dangling(cs[c].oid, main_key)
            /\ \E c \in 1..Len(cs) :
                 /\ cs[c].path # <<>>
                 /\ ~DictHas(model_data, TargetDocument(cs[c].path, main_key))
    /\ Len(ret.data) > 84

\* C8: when flattening yields zero triangles the call returns None without
\* raising; the route tells this result from a failure (an exception) and
\* from STL bytes.
C8_NoGeometry ==
    /\ [](pc = "ret131" => (ret = [kind |-> "none"] /\ all_tris = <<>>))
    /\ [](pc = "ret161" => (ret.kind = "bytes" /\ Len(all_tris) >= 3))
    /\ [][(pc = "encode" /\ all_tris = <<>>)
          => (pc' = "ret131" /\ ret'.kind = "none")]_vars
    /\ [][(Returned /\ pc' = "idle")
          => /\ (ret.kind = "bytes") <=> (response'.status = 200)
             /\ (ret.kind = "none") <=>
                    /\ response'.status = 500
                    /\ response'.body.error = NoMeshMessage
             /\ (ret.kind = "raise") <=>
                    /\ response'.status = 500
                    /\ response'.body.error # NoMeshMessage]_vars

\* None from a root document whose manifest resolves to nothing
C8_Witness ==
    /\ pc = "ret131"
    /\ RootListed
    /\ ret.kind = "none"

\* a member the loop reads is malformed XML
BrokenMember ==
    \E i \in 1..Len(z) :
        /\ EndsWithModel(z[i].name)
        /\ ~Xml(ZipRead(z, z[i].name)).wellformed

NoModelMember == \A i \in 1..Len(z) : ~EndsWithModel(z[i].name)

\* C10 as claimed: a valid zip archive without a '.model' member is surfaced
\* as an error, not as a no-mesh result.
C10_AsClaimed ==
    (ReturnedMiss /\ TheArchive.zip /\ NoModelMember) => ret.kind = "raise"

\* C10: a valid zip archive without a '.model' member gives the no-mesh
\* result: the call returns None and the route answers 500 with the no-mesh
\* message; only a file that is no zip archive raises an error (BadZipFile).
C10_NoModelMemberIsNoMesh ==
    /\ (ReturnedMiss /\ TheArchive.zip /\ NoModelMember) =>
          /\ pc = "ret131"
          /\ ret = [kind |-> "none"]
          /\ RouteResponse(ret).body.error = NoMeshMessage
    /\ (ReturnedMiss /\ ~TheArchive.zip) => ret = Raised("BadZipFile")

\* None from an archive that holds only a thumbnail
C10_Witness ==
    /\ pc = "ret131"
    /\ TheArchive.zip
    /\ z # <<>>
    /\ NoModelMember

\* --------------------------------------------------------- the cache, claims

\* a call begins
CallBegins == pc = "idle" /\ pc' # "idle"

\* a call begins that is not the first, under the key of the call before it
SameKeyAgain == CallBegins /\ response # NoResponse /\ cache_key' = cache_key

\* a call begins on the path of the call before it, whose modification time
\* has changed since
TouchedSince ==
    /\ CallBegins
    /\ response # NoResponse
    /\ filepath' = filepath
    /\ cache_key' # cache_key

\* the call before returned a value, STL bytes or None
ReturnedBefore ==
    \/ response.status = 200
    \/ response = RouteResponse([kind |-> "none"])

\* C11 as claimed: the second of two calls on a path whose modification time
\* has not changed does not read the archive and returns what the first
\* returned.
C11_AsClaimed ==
    [][(SameKeyAgain /\ ReturnedBefore)
       => (pc' = "ret77" /\ RouteResponse(ret') = response)]_vars

\* C11: when the first of two calls on a path returned STL bytes and the
\* modification time has not changed, the second call returns those bytes
\* without opening the archive or parsing a document; when the first call
\* returned None or raised, nothing was stored and the second call opens
\* the archive again.
C11_CacheHit ==
    /\ [][(SameKeyAgain /\ response.status = 200)
          => /\ pc' = "ret77"
             /\ ret' = [kind |-> "bytes", data |-> response.body]
             /\ UNCHANGED <<stl_cache, locals>>]_vars
    /\ [][pc = "ret77"
          => /\ pc' = "idle"
             /\ response' = [status |-> 200, body |-> ret.data]
             /\ UNCHANGED <<stl_cache, locals>>]_vars
    /\ [](pc = "ret77" => (z = <<>> /\ model_data = <<>> /\ all_tris = <<>>))
    /\ [][(SameKeyAgain /\ response.status # 200)
          => (pc' = "open" /\ ret' = Pending)]_vars

\* the second call returns the stored bytes of a mesh
C11_Witness ==
    /\ pc = "ret77"
    /\ fs[filepath].mtime = 0
    /\ touches = 0
    /\ ret.data = stl_cache[cache_key]
    /\ Len(ret.data) > 84

C13_AppendOnly ==
    /\ [][\A k \in DOMAIN stl_cache :
             k \in DOMAIN stl_cache' /\ stl_cache'[k] = stl_cache[k]]_vars
    /\ [][(pc = "ret77" \/ pc' = "ret77") => stl_cache' = stl_cache]_vars
    /\ [][stl_cache' # stl_cache
          => /\ pc = "encode" /\ pc' = "ret161"
             /\ cache_key \notin DOMAIN stl_cache
             /\ DOMAIN stl_cache' = DOMAIN stl_cache \cup {cache_key}]_vars
    /\ [](pc = "ret161" => (cache_key \in DOMAIN stl_cache
                            /\ stl_cache[cache_key] = ret.data))
    /\ []((pc = "idle" /\ response.status = 200)
           => cache_key \in DOMAIN stl_cache)

\* the entries of both modification times of a file are in the cache
C13_Witness ==
    /\ pc = "ret161"
    /\ cache_key = <<filepath, 1>>
    /\ {<<filepath, 0>>, <<filepath, 1>>} \subseteq DOMAIN stl_cache
    /\ stl_cache[<<filepath, 0>>] = stl_cache[<<filepath, 1>>]

\* the request of the thread that is not running
Other == waiting[1]

\* both requests have been answered
BothAnswered == response # NoResponse /\ Other.response # NoResponse

\* C14: two requests convert the same file, which is not cached and not
\* modified, their steps interleaved in any order: both calls complete with
\* the same result; when that is STL bytes the cache afterwards holds one
\* entry, under the key of both calls, with those bytes (a file that gives
\* no bytes leaves the cache empty); no step changes or removes an entry
\* that is there.
C14_CacheMissRace ==
    /\ <>BothAnswered
    /\ [](BothAnswered
           => /\ pc = "idle" /\ Other.pc = "idle"
              /\ response = Other.response
              /\ cache_key = Other.cache_key
              /\ response.status = 200
                    => /\ DOMAIN stl_cache = {cache_key}
                       /\ stl_cache[cache_key] = response.body
              /\ response.status # 200 => DOMAIN stl_cache = {})
    /\ [][\A k \in DOMAIN stl_cache :
             k \in DOMAIN stl_cache' /\ stl_cache'[k] = stl_cache[k]]_vars

\* both requests missed, both converted and both stored the bytes
C14_Witness ==
    /\ pc = "ret161"
    /\ Other.pc = "ret161"
    /\ ret.data = Other.ret.data
    /\ DOMAIN stl_cache = {cache_key}

\* ------------------------------------------------------- the normals, claims

\* the number of triangles the returned bytes announce
CountOf(data) == U32At(data, 80)

\* the normal and the three vertices of the i-th record of the bytes
RecordNormal(data, i) == Vec3At(data, 84 + 50 * i)
RecordA(data, i) == Vec3At(data, 84 + 50 * i + 12)
RecordB(data, i) == Vec3At(data, 84 + 50 * i + 24)
RecordC(data, i) == Vec3At(data, 84 + 50 * i + 36)

\* the cross product (B-A) x (C-A) of the i-th record's vertices
RecordCross(data, i) ==
    Cross(RecordA(data, i), RecordB(data, i), RecordC(data, i))

\* n is x divided by its length l
IsScaledBy(n, x, l) ==
    /\ l > 0
    /\ l * l = Dot(x, x)
    /\ \A k \in 1..3 : n[k] * l = x[k]

\* C15: in the returned bytes every record whose vertices have a non-zero
\* cross product (B-A) x (C-A) carries that cross product divided by its
\* length, a unit vector; the record of A=(0,0,0), B=(1,0,0), C=(0,1,0)
\* carries (0,0,1).
C15_NormalCorrect ==
    pc = "ret161" =>
        \A i \in 0..(CountOf(ret.data) - 1) :
            LET n == RecordNormal(ret.data, i)
                x == RecordCross(ret.data, i)
            IN /\ x # <<0, 0, 0>> =>
                     /\ Dot(n, n) = 1
                     /\ IsScaledBy(n, x, Dot(n, x))
               /\ (/\ RecordA(ret.data, i) = <<0, 0, 0>>
                   /\ RecordB(ret.data, i) = <<1, 0, 0>>
                   /\ RecordC(ret.data, i) = <<0, 1, 0>>) => n = <<0, 0, 1>>

\* bytes with the triangle of the claim and with a triangle whose cross
\* product is longer than 1
C15_Witness ==
    /\ pc = "ret161"
    /\ \E i \in 0..(CountOf(ret.data) - 1) :
         /\ RecordA(ret.data, i) = <<0, 0, 0>>
         /\ RecordB(ret.data, i) = <<1, 0, 0>>
         /\ RecordC(ret.data, i) = <<0, 1, 0>>
         /\ RecordNormal(ret.data, i) = <<0, 0, 1>>
    /\ \E i \in 0..(CountOf(ret.data) - 1) :
         /\ RecordCross(ret.data, i) = <<2, 0, 0>>
         /\ RecordNormal(ret.data, i) = <<1, 0, 0>>

\* every flattened index can be read from the vertex buffer
AllReadable ==
    \A j \in 1..Len(all_tris) : VertexAt(all_verts, all_tris[j] * 3).ok

\* the flattened triangle i has a cross product of length 0
Degenerate(i) ==
    Cross(Values3(all_verts, all_tris[3 * i + 1]),
          Values3(all_verts, all_tris[3 * i + 2]),
          Values3(all_verts, all_tris[3 * i + 3])) = <<0, 0, 0>>

\* C16: a triangle whose cross product is zero (A=B=C, a repeated point,
\* three points on a line) is written with the normal (0,0,0) and its
\* vertices, and it is counted; the encoding of readable triangles raises
\* nothing, whether they are degenerate or not.
C16_DegenerateSafe ==
    /\ [](pc = "ret161" =>
            /\ 3 * CountOf(ret.data) = Len(all_tris)
            /\ \A i \in 0..(Len(all_tris) \div 3 - 1) :
                 Degenerate(i) =>
                     /\ RecordNormal(ret.data, i) = <<0, 0, 0>>
                     /\ RecordA(ret.data, i) = Values3(all_verts, all_tris[3 * i + 1])
                     /\ RecordB(ret.data, i) = Values3(all_verts, all_tris[3 * i + 2])
                     /\ RecordC(ret.data, i) = Values3(all_verts, all_tris[3 * i + 3]))
    /\ [][(pc = "encode" /\ all_tris # <<>> /\ AllReadable)
          => (pc' = "ret161" /\ ret'.kind = "bytes")]_vars

\* bytes with the three kinds of degenerate triangle and a proper one
C16_Witness ==
    /\ pc = "ret161"
    /\ AllReadable
    /\ \E i \in 0..(Len(all_tris) \div 3 - 1) :
         /\ Degenerate(i)
         /\ all_tris[3 * i + 1] = all_tris[3 * i + 2]
         /\ all_tris[3 * i + 2] = all_tris[3 * i + 3]
    /\ \E i \in 0..(Len(all_tris) \div 3 - 1) :
         /\ Degenerate(i)
         /\ all_tris[3 * i + 1] = all_tris[3 * i + 2]
         /\ all_tris[3 * i + 2] # all_tris[3 * i + 3]
    /\ \E i \in 0..(Len(all_tris) \div 3 - 1) :
         /\ Degenerate(i)
         /\ Cardinality({all_tris[3 * i + 1], all_tris[3 * i + 2],
                         all_tris[3 * i + 3]}) = 3
    /\ \E i \in 0..(Len(all_tris) \div 3 - 1) : ~Degenerate(i)

\* ------------------------------------------------------ determinism, claims

\* the file a cache key names holds the archive a
HoldsArchive(k, a) == fs[k[1]].archive = a

\* C17: conversions of the same archive content, each one a cache miss, under
\* different paths, different modification times and whatever the cache
\* held before, return the same bytes: the entries of the cache, each one
\* stored by the miss that returned it, are equal wherever the files hold
\* the same content, and so are the bytes a miss returns and every entry
\* stored for that content.
C17_Deterministic ==
    /\ \A k1 \in DOMAIN stl_cache :
         \A k2 \in DOMAIN stl_cache :
             HoldsArchive(k2, fs[k1[1]].archive) => stl_cache[k1] = stl_cache[k2]
    /\ pc = "ret161" =>
          \A k \in DOMAIN stl_cache :
              HoldsArchive(k, TheArchive) => ret.data = stl_cache[k]

\* the one-object, one-mesh package was converted under two paths and two
\* modification times
C17_Witness ==
    /\ pc = "ret161"
    /\ \A p \in DOMAIN fs : fs[p].archive = SquareArchive
    /\ Cardinality(DOMAIN stl_cache) = 3
    /\ \E k \in DOMAIN stl_cache : k[1] # filepath
    /\ \E k \in DOMAIN stl_cache : k[1] = filepath /\ k[2] # fs[filepath].mtime
    /\ Len(ret.data) = 184

\* ------------------------------------------------------- resolution, claims

\* the components of the object a frame resolves
CompsOf(f) ==
    IF /\ DictHas(model_data, f.path)
       /\ DictHas(DictGet(model_data, f.path).comps, f.oid)
    THEN DictGet(DictGet(model_data, f.path).comps, f.oid)
    ELSE <<>>

\* the mesh of the object a frame resolves, if it has one
OwnMesh(f) ==
    IF /\ DictHas(model_data, f.path)
       /\ DictHas(DictGet(model_data, f.path).meshes, f.oid)
    THEN <<DictGet(DictGet(model_data, f.path).meshes, f.oid)>>
    ELSE <<>>

\* a step calls collect() for a component of the object on top of the stack
ComponentCalled ==
    /\ pc = "collect"
    /\ stack # <<>>
    /\ Top.next > 0
    /\ Len(stack') = Len(stack) + 1

\* C18: a component with an empty path is resolved against the document of
\* the object that lists it, also when that document is not the root and
\* was itself reached through a path; a component with a path P is resolved
\* against P, with '/' put before it unless P starts with '/'.
C18_ComponentTarget ==
    /\ [][ComponentCalled
          => LET comp == CompsOf(Top)[Top.next]
                 called == stack'[Len(stack')]
             IN /\ called.oid = comp.oid
                /\ comp.path = <<>> => called.path = Top.path
                /\ (comp.path # <<>> /\ Head(comp.path) = "/")
                      => called.path = comp.path
                /\ (comp.path # <<>> /\ Head(comp.path) # "/")
                      => called.path = <<"/">> \o comp.path]_vars
    /\ [](\A k \in 1..Len(stack) : Head(stack[k].path) = "/")

\* an object of the part document, reached through a path, resolves its
\* component without a path in the part document, where the object of that
\* id has another mesh than in the root
C18_Witness ==
    /\ pc = "collect"
    /\ Len(stack) = 3
    /\ stack[1].path = main_key
    /\ CompsOf(stack[1])[stack[1].next - 1].path # <<>>
    /\ Head(CompsOf(stack[1])[stack[1].next - 1].path) # "/"
    /\ stack[2].path # main_key
    /\ CompsOf(stack[2])[stack[2].next - 1].path = <<>>
    /\ stack[3].path = stack[2].path
    /\ OwnMesh(stack[3]) # <<>>
    /\ OwnMesh(stack[3]) # OwnMesh([stack[3] EXCEPT !.path = main_key])
    /\ OwnMesh([stack[3] EXCEPT !.path = main_key]) # <<>>

\* what the call of a frame has appended and resolved so far: nothing before
\* it is entered, then the object's own mesh and the components before the
\* one in progress
FrameDone(f, top) ==
    IF f.next = 0 THEN <<>>
    ELSE OwnMesh(f)
         \o ComponentContributions(
                SubSeq(CompsOf(f), 1, IF top THEN f.next - 1 ELSE f.next - 2),
                f.path, MaxDepth)

RECURSIVE FramesDone(_)
FramesDone(k) ==
    IF k = 0 THEN <<>>
    ELSE FramesDone(k - 1) \o FrameDone(stack[k], k = Len(stack))

\* the meshes of the depth-first pre-order up to the place the stack names
PreOrderSoFar ==
    ItemContributions(
        SubSeq(build_items, 1, IF stack = <<>> THEN item - 1 ELSE item - 2))
    \o FramesDone(Len(stack))

\* C19: resolution is depth-first pre-order: at every moment of it the
\* buffers hold, in this order, for each object being resolved from the
\* build item down, the object's own mesh and then the complete
\* contributions of its components before the one in progress, in their
\* listed order.
C19_PreOrder ==
    pc = "collect" => IsConcatenationOf(PreOrderSoFar)

\* an object with a mesh and components has resolved its component, below an
\* object whose first two components are complete
C19_Witness ==
    /\ pc = "collect"
    /\ Len(stack) = 2
    /\ stack[1].next = 4
    /\ OwnMesh(Top) # <<>>
    /\ CompsOf(Top) # <<>>
    /\ Top.next = Len(CompsOf(Top)) + 1
    /\ Len(PreOrderSoFar) = 3
    /\ PreOrderSoFar[2] = OwnMesh(Top)[1]
    /\ PreOrderSoFar[3] # PreOrderSoFar[2]

\* the objects the components of the object n = <<path, oid>> name
Succ(n) ==
    {<<TargetDocument(CompsOf([path |-> n[1], oid |-> n[2]])[c].path, n[1]),
       CompsOf([path |-> n[1], oid |-> n[2]])[c].oid>> :
        c \in 1..Len(CompsOf([path |-> n[1], oid |-> n[2]]))}

\* the objects reachable from those of S through components
RECURSIVE ReachFrom(_)
ReachFrom(S) ==
    LET more == S \cup UNION {Succ(n) : n \in S}
    IN IF more = S THEN S ELSE ReachFrom(more)

\* a build item of the root reaches an object that reaches itself
CycleFromBuild ==
    /\ RootListed
    /\ \E i \in 1..Len(DictGet(model_data, main_key).build) :
         \E n \in ReachFrom({<<main_key, DictGet(model_data, main_key).build[i]>>}) :
             n \in ReachFrom(Succ(n))

\* the resolution of the call is over
ResolutionOver == Flattened \/ RaisedAfterRead

\* C20 as claimed: when a build item reaches a component cycle the
\* resolution never comes to an end.
C20_AsClaimed == CycleFromBuild => ~ResolutionOver

\* C20: when a build item reaches a component cycle, the resolution visits
\* the objects of the cycle again and again, appending their meshes each
\* time, until the interpreter's recursion limit stops it: the call raises
\* RecursionError, returns no result and stores nothing, and the route
\* answers 500. Nothing else raises RecursionError.
C20_CycleRaises ==
    /\ (CycleFromBuild /\ ResolutionOver) =>
          /\ pc = "raised"
          /\ ret = Raised("RecursionError")
          /\ RouteResponse(ret).status = 500
          /\ cache_key \notin DOMAIN stl_cache
          /\ Len(stack) = MaxDepth
    /\ (ret.kind = "raise" /\ ret.exc = "RecursionError") => CycleFromBuild
    /\ pc = "collect" => Len(stack) <= MaxDepth

\* the call has failed with the same object on the stack several times and
\* its mesh appended each time
C20_Witness ==
    /\ pc = "raised"
    /\ ret = Raised("RecursionError")
    /\ CycleFromBuild
    /\ \E j \in 1..Len(stack) :
         \E k \in (j + 1)..Len(stack) :
             /\ stack[j].oid = stack[k].oid
             /\ stack[j].path = stack[k].path
             /\ OwnMesh(stack[j]) # <<>>
    /\ Len(all_tris) >= 6

\* --------------------------------------------------- reference paths, claims

\* the reference paths that start with ref at the object n = <<path, oid>>:
\* ref itself and, when n's document is in the map, every path that goes on
\* through one of n's components
RECURSIVE RefPathsFrom(_, _, _)
RefPathsFrom(n, ref, fuel) ==
    {[ref |-> ref, node |-> n]}
    \cup IF fuel = 0 \/ ~DictHas(model_data, n[1]) THEN {}
         ELSE UNION {RefPathsFrom(
                         <<TargetDocument(
                               CompsOf([path |-> n[1], oid |-> n[2]])[c].path,
                               n[1]),
                           CompsOf([path |-> n[1], oid |-> n[2]])[c].oid>>,
                         Append(ref, c), fuel - 1) :
                     c \in 1..Len(CompsOf([path |-> n[1], oid |-> n[2]]))}

\* every reference path of the manifest: an item and a chain of components
RefPaths ==
    UNION {RefPathsFrom(<<main_key, DictGet(model_data, main_key).build[i]>>,
                        <<i>>, MaxDepth) :
           i \in 1..Len(DictGet(model_data, main_key).build)}

\* the reference paths that end at an object whose mesh is m
RefPathsTo(m) ==
    {r \in RefPaths : OwnMesh([path |-> r.node[1], oid |-> r.node[2]]) = <<m>>}

\* the places of the list L that hold the mesh m
CopiesOf(L, m) == {k \in 1..Len(L) : L[k] = m}

\* the resolution of an acyclic manifest is in progress
ResolvingAcyclic == pc = "collect" /\ ~CycleFromBuild

\* C21: when no build item reaches a component cycle the resolution comes to
\* an end without an error, and the buffers then hold one copy of a mesh for
\* every reference path (a build item and a chain of components) that ends
\* at an object with that mesh, each copy's indices moved past the vertices
\* appended before it: an object named by two components or listed twice is
\* appended twice.
C21_AcyclicTerminates ==
    /\ ResolvingAcyclic ~> Flattened
    /\ []((Flattened /\ RootListed /\ ~CycleFromBuild) =>
            \E L \in {Appended} :
                /\ IsConcatenationOf(L)
                /\ Len(L) = Cardinality({r \in RefPaths :
                              OwnMesh([path |-> r.node[1],
                                       oid |-> r.node[2]]) # <<>>})
                /\ \A k \in 1..Len(L) :
                     Cardinality(CopiesOf(L, L[k]))
                       = Cardinality(RefPathsTo(L[k])))
    /\ [](ResolvingAcyclic => ret = Pending)

\* the manifest lists an object twice and an object names it twice by its
\* components: its mesh is in the buffers four times, at four offsets
C21_Witness ==
    /\ Flattened
    /\ RootListed
    /\ ~CycleFromBuild
    /\ \E i \in 1..Len(build_items) :
         \E j \in (i + 1)..Len(build_items) :
             /\ build_items[i] = build_items[j]
             /\ Cardinality(RefPathsTo(Appended[1])) = 4
    /\ Cardinality(CopiesOf(Appended, Appended[1])) = 4
    /\ vert_offset = 4 * (Len(Appended[1].verts) \div 3)
    /\ all_tris[1] # all_tris[4]
    /\ all_tris[4] # all_tris[7]
    /\ all_tris[7] # all_tris[10]

\* ------------------------------------------------------ index bounds, claims

\* every mesh registered in a document of the map names only its own vertices
AllWellIndexed ==
    \A k \in 1..Len(RegisteredMeshes(model_data)) :
        WellIndexed(RegisteredMeshes(model_data)[k])

\* add_mesh may have been called and the locals of the call are still there
Accumulating ==
    pc \in {"collect", "encode", "ret131", "ret161"} \/ RaisedAfterRead

\* C22: when every registered mesh has only local indices >= 0 and below its
\* vertex count, then after any number of add_mesh calls vert_offset is the
\* number of vertices in the buffer and every flattened index is >= 0 and
\* below it; each flattened index lies in the vertex range of the mesh it
\* came with, the encoder raises no IndexError, and the vertices it writes
\* for a triangle are those of the triangle's own mesh.
C22_IndexBounds ==
    (Accumulating /\ AllWellIndexed) =>
        /\ Len(all_verts) = 3 * vert_offset
        /\ \A p \in 1..Len(all_tris) :
             all_tris[p] >= 0 /\ all_tris[p] < vert_offset
        /\ pc = "raised" => ret # Raised("IndexError")
        /\ Flattened =>
             \A p \in 1..Len(all_tris) :
                 LET k == MeshOfIndex(Appended, p)
                 IN /\ all_tris[p] >= VertsBefore(Appended, k)
                    /\ all_tris[p] < VertsBefore(Appended, k + 1)
        /\ pc = "ret161" =>
             \A p \in 1..Len(all_tris) :
                 LET k == MeshOfIndex(Appended, p)
                     local == Appended[k].tris[p - IndicesBefore(Appended, k)]
                 IN Vec3At(ret.data,
                           84 + 50 * ((p - 1) \div 3) + 12 + 12 * ((p - 1) % 3))
                      = Values3(Appended[k].verts, local)

\* bytes of three well-indexed meshes: the indices of the third start past
\* the vertices of the two before it
C22_Witness ==
    /\ pc = "ret161"
    /\ AllWellIndexed
    /\ Len(Appended) >= 3
    /\ vert_offset = VertsBefore(Appended, Len(Appended) + 1)
    /\ VertsBefore(Appended, 3) > VertsBefore(Appended, 2)
    /\ all_tris[IndicesBefore(Appended, 3) + 1] >= VertsBefore(Appended, 3)
    /\ Appended[3].tris[1] < VertsBefore(Appended, 2)

\* ------------------------------------------------- mesh registration, claims

\* the object has a mesh child with a vertices child and a triangles child
HasBothLists(obj) ==
    /\ obj.mesh # <<>>
    /\ obj.mesh[1].vertices # <<>>
    /\ obj.mesh[1].triangles # <<>>

\* ... and each of the two has at least one child
HasGeometry(obj) ==
    /\ HasBothLists(obj)
    /\ obj.mesh[1].vertices[1] # <<>>
    /\ obj.mesh[1].triangles[1] # <<>>

\* the attribute of an element, 0 when the element does not have it
AttrOrZero(el, name) == IF name \in DOMAIN el THEN el[name] ELSE 0

\* the mesh is the lists of the object: three coordinates a vertex, three
\* indices a triangle, in document order
IsMeshOf(mesh, obj) ==
    LET vs == obj.mesh[1].vertices[1]
        ts == obj.mesh[1].triangles[1]
    IN /\ Len(mesh.verts) = 3 * Len(vs)
       /\ Len(mesh.tris) = 3 * Len(ts)
       /\ \A j \in 1..Len(vs) :
            /\ Value(mesh.verts[3 * j - 2]) = AttrOrZero(vs[j], "x")
            /\ Value(mesh.verts[3 * j - 1]) = AttrOrZero(vs[j], "y")
            /\ Value(mesh.verts[3 * j]) = AttrOrZero(vs[j], "z")
       /\ \A j \in 1..Len(ts) :
            /\ mesh.tris[3 * j - 2] = AttrOrZero(ts[j], "v1")
            /\ mesh.tris[3 * j - 1] = AttrOrZero(ts[j], "v2")
            /\ mesh.tris[3 * j] = AttrOrZero(ts[j], "v3")

\* the element tree of the member that the map holds under its d-th key
SourceOf(d) ==
    Xml(ZipRead(z, (CHOOSE m \in {z[i] : i \in 1..(idx - 1)} :
                       EndsWithModel(m.name)
                       /\ NormKey(m.name) = model_data[d].k).name))

\* the keys of a dict
Keys(dict) == {dict[i].k : i \in 1..Len(dict)}

\* C23 as claimed: every object whose mesh has a vertices child and a
\* triangles child is in the mesh map of its document.
C23_AsClaimed ==
    \A d \in 1..Len(model_data) :
        \A o \in 1..Len(SourceOf(d).objects) :
            HasBothLists(SourceOf(d).objects[o])
                => DictHas(model_data[d].v.meshes, SourceOf(d).objects[o].id)

\* C23: the mesh map of a document holds an id exactly when an object of
\* that id has a mesh with a vertices child and a triangles child that each
\* have at least one element; it holds under the id the lists of the last
\* such object, a missing x, y or z read as 0.0 and a missing v1, v2 or v3
\* as 0. An object whose mesh lacks a child, or has an empty one, is passed
\* over and raises nothing.
C23_MeshRegistration ==
    /\ \A d \in 1..Len(model_data) :
         LET objs == SourceOf(d).objects
             meshes == model_data[d].v.meshes
         IN /\ Keys(meshes) = {objs[o].id : o \in {i \in 1..Len(objs) :
                                                      HasGeometry(objs[i])}}
            /\ \A o \in 1..Len(objs) :
                 (/\ HasGeometry(objs[o])
                  /\ \A q \in (o + 1)..Len(objs) :
                       ~(HasGeometry(objs[q]) /\ objs[q].id = objs[o].id))
                 => IsMeshOf(DictGet(meshes, objs[o].id), objs[o])
    /\ (pc = "raised" /\ idx >= 1 /\ idx <= Len(z))
          => ~Xml(ZipRead(z, z[idx].name)).wellformed

\* a document is read that has an object of all three kinds passed over (no
\* vertices child, an empty vertices child, an id that comes again) and an
\* object registered with its missing attributes read as 0
C23_Witness ==
    /\ pc \in {"read", "collect", "encode"}
    /\ \E d \in 1..Len(model_data) :
         LET objs == SourceOf(d).objects
             meshes == model_data[d].v.meshes
         IN /\ \E o \in 1..Len(objs) :
                 ~HasBothLists(objs[o]) /\ objs[o].mesh # <<>>
            /\ \E o \in 1..Len(objs) :
                 /\ HasGeometry(objs[o])
                 /\ ~IsMeshOf(DictGet(meshes, objs[o].id), objs[o])
            /\ Len(meshes) = 1
    /\ \E d \in 1..Len(model_data) :
         \E o \in 1..Len(SourceOf(d).objects) :
             /\ HasBothLists(SourceOf(d).objects[o])
             /\ ~HasGeometry(SourceOf(d).objects[o])
    /\ \E d \in 1..Len(model_data) :
         LET objs == SourceOf(d).objects
         IN \E o \in 1..Len(objs) :
                /\ HasGeometry(objs[o])
                /\ IsMeshOf(DictGet(model_data[d].v.meshes, objs[o].id), objs[o])
                /\ \E j \in 1..Len(objs[o].mesh[1].vertices[1]) :
                     "x" \notin DOMAIN objs[o].mesh[1].vertices[1][j]
                /\ \E j \in 1..Len(objs[o].mesh[1].triangles[1]) :
                     "v1" \notin DOMAIN objs[o].mesh[1].triangles[1][j]

\* ----------------------------------------------------- cache content, claims

\* C24: in every reachable state every value of the cache is a complete STL
\* buffer of at least one triangle, of length 84 + 50*N with N >= 1 the count
\* at bytes 80-83; a call that returns None or fails leaves the cache as it
\* was.
C24_CacheContent ==
    /\ [](\A k \in DOMAIN stl_cache :
            /\ Len(stl_cache[k]) >= HeaderLen + CountLen + RecordLen
            /\ U32At(stl_cache[k], HeaderLen) >= 1
            /\ Len(stl_cache[k])
                 = HeaderLen + CountLen
                   + RecordLen * U32At(stl_cache[k], HeaderLen))
    /\ [][pc' \in {"ret131", "raised"} => stl_cache' = stl_cache]_vars

\* a call has returned None or failed while the cache holds the bytes of the
\* other file, and nothing is stored under the call's key
C24_Witness ==
    /\ pc \in {"ret131", "raised"}
    /\ DOMAIN stl_cache # {}
    /\ cache_key \notin DOMAIN stl_cache
    /\ \E k \in DOMAIN stl_cache : U32At(stl_cache[k], HeaderLen) >= 2

\* -------------------------------------------------------- cache keys, claims

\* what the file p held when its modification time was m
ContentAt(p, m) ==
    IF m = fs[p].mtime THEN fs[p].archive ELSE fs[p].before[m + 1]

\* C25: whenever the call stores an entry, under the key (path, mtime), the
\* archive it has read and converted is the content the file had when its
\* modification time was mtime.
C25_KeyFidelity ==
    [][stl_cache' # stl_cache =>
          /\ ContentAt(filepath, cache_key[2]).zip
          /\ z = ContentAt(filepath, cache_key[2]).members]_vars

\* the file held the one-square package at modification time 0, and the
\* entry stored under that time is not the 184 bytes of its conversion
C25_StaleKey ==
    /\ pc = "ret161"
    /\ cache_key = <<filepath, 0>>
    /\ ContentAt(filepath, 0) = SquareArchive
    /\ cache_key \in DOMAIN stl_cache
    /\ Len(stl_cache[cache_key]) # 184
    /\ fs[filepath].mtime = 1
    /\ z = fs[filepath].archive.members

\* ------------------------------------------------- the two converters, claims

LiesInside(path, dir) ==
    LET p == Split(NormPath(path))
        d == Split(NormPath(dir))
    IN Len(p) > Len(d) /\ SubSeq(p, 1, Len(d)) = d

\* the path is that of the directory dir or of something in it
LiesWithin(path, dir) ==
    LET p == Split(NormPath(path))
        d == Split(NormPath(dir))
    IN Len(p) >= Len(d) /\ SubSeq(p, 1, Len(d)) = d

\* C27: the file that stl_convert hands to convert_3mf_to_stl lies inside
\* MODELS_DIR, and a step of the route for a name whose normalized path lies
\* outside MODELS_DIR answers 403 and calls nothing.
C27_PathConfinement ==
    /\ [](pc # "idle" => LiesInside(filepath, MODELS_DIR))
    /\ [][\A filename \in Filenames :
             (/\ pc = "idle"
              /\ ~LiesWithin(PathJoin(MODELS_DIR, filename), MODELS_DIR)
              /\ \/ RouteForbidden(filename)
                 \/ RouteNotFound(filename)
                 \/ RouteConvert(filename))
             => (response'.status = 403 /\ pc' = "idle")]_vars

\* a file of the directory models_old, next to MODELS_DIR, has been
\* converted, stored and is about to be sent
C27_Escape ==
    /\ pc = "ret161"
    /\ filepath = <<"/", "app", "/", "models", "_old", "/", "cube", ".3mf">>
    /\ ~LiesInside(filepath, MODELS_DIR)
    /\ <<filepath, 0>> \in DOMAIN stl_cache
    /\ RouteResponse(ret).status = 200


\* ----------------------------------------------------------------- C28

\* the text the classified project is searched in
ProjectText == SearchText(project.key, project.files, project.title)

\* the score of a category: the number of entries of its keyword list that
\* occur in the text
ScoreOf(cat) ==
    LET rules == CATEGORY_RULES[CHOOSE i \in 1..Len(CATEGORY_RULES) :
                                   CATEGORY_RULES[i].cat = cat]
    IN Cardinality({i \in 1..Len(rules.keywords) :
                      Contains(ProjectText, Lower(rules.keywords[i]))})

Categories == {CATEGORY_RULES[i].cat : i \in 1..Len(CATEGORY_RULES)}

\* the place of a category in the order storage, toys, decor, tools
Rank(cat) ==
    CASE cat = "storage" -> 1
      [] cat = "toys" -> 2
      [] cat = "decor" -> 3
      [] cat = "tools" -> 4

Classified == project.category # ""

\* C28: classify_project returns a category whose keyword score is maximal;
\* among the categories tied at the maximum it returns the first in the
\* order storage, toys, decor, tools; when no keyword matches it returns
\* decor.
C28_Classification ==
    Classified =>
        /\ project.category \in Categories
        /\ \A c \in Categories : ScoreOf(c) <= ScoreOf(project.category)
        /\ (\E c \in Categories : ScoreOf(c) > 0) =>
               \A c \in Categories :
                   ScoreOf(c) = ScoreOf(project.category) =>
                       Rank(project.category) <= Rank(c)
        /\ (\A c \in Categories : ScoreOf(c) = 0) => project.category = "decor"

\* a project classified on a tie at a positive score: tools, the first of
\* CATEGORY_RULES, has the score of the category returned and is not returned
C28_Witness ==
    /\ Classified
    /\ ScoreOf(project.category) > 0
    /\ ScoreOf("tools") = ScoreOf(project.category)
    /\ project.category # "tools"
    /\ project.files # <<>>

====
